---- MODULE Spec2Model ----
(***************************************************************************)
(* Model of the VDCET student-records backend (Express routes over two     *)
(* Mongo collections, Users and Students).                                  *)
(*                                                                          *)
(* A request handler is a function from (store, request) to (store',        *)
(* response): every handler below is an operator that takes the store S and *)
(* the request and returns [st, status, message, data]; the action of the   *)
(* same name applies the returned store.  A handler runs to completion      *)
(* before the next request is taken (one request at a time).                *)
(*                                                                          *)
(* A store call that throws sends the handler to its catch block (500).     *)
(* Before the handler's first write that changes nothing, and is left out;  *)
(* it is modelled where the code handles it on the spot (the admin-count    *)
(* lookup of register) and where it follows a write (student.save() after   *)
(* user.save()).                                                            *)
(*                                                                          *)
(* Not tracked: firstName/lastName, timestamps (lastLogin, createdAt) and   *)
(* the password hash function (a password is compared as stored).           *)
(***************************************************************************)
EXTENDS Integers, Sequences, FiniteSets, TLC

\* ObjectIds are allocated 1, 2, 3, ... and never reused; the model stops
\* allocating after MaxIds.
MaxIds == 3

Emails == {"a@vdcet.in", "b@vdcet.in"}
Usernames == {"asha", "ravi"}
RegPasswords == {"secret1"}
LoginPasswords == {"secret1", "wrong99"}
Roles == {"admin", "student"}
Absent == "<undefined>"

VARIABLES users, students, issued, nextId, contacts, outbox, pending

vars == <<users, students, issued, nextId, contacts, outbox, pending>>

\* The store as one value: users and students are functions from _id to
\* document, issued is the set of user ids a session token was signed for.
Store == [users |-> users, students |-> students, issued |-> issued, nextId |-> nextId]

Put(f, k, v) == [x \in DOMAIN f \cup {k} |-> IF x = k THEN v ELSE f[x]]
Del(f, k) == [x \in DOMAIN f \ {k} |-> f[x]]

Res(S, status, message, data) ==
  [st |-> S, status |-> status, message |-> message, data |-> data]

NoData == [none |-> TRUE]

----------------------------------------------------------------------------
\* Session tokens.  A request carries no bearer token, a string jwt.verify
\* rejects (malformed, forged or expired), or a token the server signed.

NoToken == [kind |-> "none", id |-> 0]
BadToken == [kind |-> "bad", id |-> 0]

generateToken(id) == [kind |-> "jwt", id |-> id]

\* jwt.verify(token, secret) returns the payload or throws.
jwtVerifies(token) == token.kind = "jwt"

TokensOf(S) == {NoToken, BadToken} \cup {generateToken(i) : i \in S.issued}

----------------------------------------------------------------------------
\* Access Control Gate

protect_SkipActive(S, token) ==
  IF token.kind = "none"
    THEN [ok |-> FALSE, status |-> 401, message |-> "Access denied. No token provided.", user |-> 0]
  ELSE IF ~jwtVerifies(token)
    THEN [ok |-> FALSE, status |-> 401, message |-> "Token is not valid.", user |-> 0]
  ELSE IF token.id \notin DOMAIN S.users
    THEN [ok |-> FALSE, status |-> 401, message |-> "Token is not valid. User not found.", user |-> 0]
  ELSE [ok |-> TRUE, status |-> 200, message |-> "", user |-> token.id]

protect(S, token) ==
  IF token.kind = "none"
    THEN [ok |-> FALSE, status |-> 401, message |-> "Access denied. No token provided.", user |-> 0]
  ELSE IF ~jwtVerifies(token)
    THEN [ok |-> FALSE, status |-> 401, message |-> "Token is not valid.", user |-> 0]
  ELSE IF token.id \notin DOMAIN S.users
    THEN [ok |-> FALSE, status |-> 401, message |-> "Token is not valid. User not found.", user |-> 0]
  ELSE IF ~S.users[token.id].isActive
    THEN [ok |-> FALSE, status |-> 401,
          message |-> "Account is deactivated. Please contact administrator.", user |-> 0]
  ELSE [ok |-> TRUE, status |-> 200, message |-> "", user |-> token.id]

authorize_NoRoleCheck(roles, S, p) == p

\* authorize(...roles) applied to the outcome of protect (req.user).
authorize(roles, S, p) ==
  IF ~p.ok THEN p
  ELSE IF S.users[p.user].role \notin roles
    THEN [ok |-> FALSE, status |-> 403, message |-> "User role is not authorized to access this route",
          user |-> 0]
  ELSE p

adminOnly == {"admin"}
studentOnly == {"student"}
bothRoles == {"admin", "student"}

Gate(roles, S, token) == authorize(roles, S, protect(S, token))

\* The response when the gate ends the request: the route's handler never ran.
Rejected(S, g) == Res(S, g.status, g.message, [none |-> FALSE])

----------------------------------------------------------------------------
\* Student documents and the schema's validators

Digits == {"0", "1", "2", "3", "4", "5", "6", "7", "8", "9"}
NonZeroDigits == Digits \ {"0"}

\* '0000000000', the placeholder register falls back to
DefaultPhone == <<"0", "0", "0", "0", "0", "0", "0", "0", "0", "0">>
GoodPhone == <<"9", "8", "7", "6", "5", "4", "3", "2", "1", "0">>
AltPhone == <<"+", "9", "1", "7">>
NoPhone == <<>>

\* /^[\+]?[1-9][\d]{0,15}$/
PhoneOK(p) ==
  LET q == IF Len(p) > 0 /\ p[1] = "+" THEN Tail(p) ELSE p
  IN /\ Len(q) >= 1
     /\ Len(q) <= 16
     /\ q[1] \in NonZeroDigits
     /\ \A i \in 2..Len(q) : q[i] \in Digits

SchemaStatuses == {"active", "inactive", "suspended", "graduated", "transferred", "dropped"}
AdminStatuses == {"active", "inactive", "suspended", "graduated"}

\* Student ids: <<"S", k>> as typed by a caller, <<"STU", t>> as generated
\* from the clock, <<>> when the field is missing or blank.
NoStudentId == <<>>
GivenStudentIds == {<<"S", 1>>, <<"S", 2>>}

\* A nested object (address, academicInfo, guardianInfo, emergencyContact) is
\* a function from subfield name to value; an object sent in a request may
\* carry any subset of the subfields.  An optional object of a request body
\* is <<>> when it is left out and <<obj>> when it is given.
\* { ...a, ...b }
Spread(a, b) ==
  [k \in DOMAIN a \cup DOMAIN b |-> IF k \in DOMAIN b THEN b[k] ELSE a[k]]

\* Guardian e-mail addresses, split at '@' and at the last '.'
DefaultGuardianEmail == [user |-> "na", host |-> "example", tld |-> <<"c", "o", "m">>]
GivenGuardianEmail == [user |-> "parent", host |-> "mail", tld |-> <<"c", "o", "m">>]
LongTldGuardianEmail == [user |-> "parent", host |-> "mail", tld |-> <<"i", "n", "f", "o">>]

\* express-validator isEmail(): the top-level domain has two letters or more
isEmail(e) == Len(e.tld) >= 2

\* /^\w+([.-]?\w+)*@\w+([.-]?\w+)*(\.\w{2,3})+$/ on user@host.tld
GuardianEmailOK(e) == Len(e.tld) >= 2 /\ Len(e.tld) <= 3

\* Dates as new Date() may read them; Today is the reading in the runs of
\* Spec, and the claims about dates range over all of Dates.
NoDate == "<null>"
Today == "2024-06-01"
Dates == {Today, "2025-06-01"}

\* The fallback objects of register
DefaultAddress ==
  [street |-> "N/A", city |-> "N/A", state |-> "N/A", zipCode |-> "000000", country |-> "India"]
DefaultAcademicInfo ==
  [department |-> "N/A", course |-> "N/A", collegeName |-> "N/A", year |-> 1, semester |-> 1,
   cgpa |-> 0]
DefaultGuardianInfo ==
  [name |-> "N/A", relationship |-> "N/A", phone |-> DefaultPhone, email |-> DefaultGuardianEmail]
DefaultEmergencyContact ==
  [name |-> "N/A", relationship |-> "N/A", phone |-> DefaultPhone]

\* Objects as a caller fills them in
GivenAddress ==
  [street |-> "12 MG Road", city |-> "Pune", state |-> "MH", zipCode |-> "411001"]
GivenAcademicInfo ==
  [collegeName |-> "VDCET", department |-> "CSE", course |-> "BTech", year |-> 2, semester |-> 3]
GivenGuardianInfo ==
  [name |-> "Meera", relationship |-> "mother", phone |-> GoodPhone, email |-> GivenGuardianEmail]
GivenEmergencyContact ==
  [name |-> "Kiran", relationship |-> "uncle", phone |-> GoodPhone]

\* required: true on a String subfield
Filled(obj, k) == k \in DOMAIN obj /\ obj[k] # ""

\* required and match on a phone subfield
FilledPhone(obj, k) == k \in DOMAIN obj /\ PhoneOK(obj[k])

\* required, min and max on a Number subfield
InRange(obj, k, lo, hi) == k \in DOMAIN obj /\ obj[k] >= lo /\ obj[k] <= hi

\* Mongoose validation of a Student document: required fields, the phone and
\* e-mail patterns, the number ranges and the status enum.
ValidStudent(doc) ==
  /\ doc.studentId # NoStudentId
  /\ PhoneOK(doc.phone)
  /\ \A k \in {"street", "city", "state", "zipCode", "country"} : Filled(doc.address, k)
  /\ \A k \in {"collegeName", "department", "course"} : Filled(doc.academicInfo, k)
  /\ InRange(doc.academicInfo, "year", 1, 5)
  /\ InRange(doc.academicInfo, "semester", 1, 8)
  /\ "cgpa" \in DOMAIN doc.academicInfo => InRange(doc.academicInfo, "cgpa", 0, 10)
  /\ "attendancePercentage" \in DOMAIN doc.academicInfo =>
       InRange(doc.academicInfo, "attendancePercentage", 0, 100)
  /\ \A k \in {"totalCredits", "earnedCredits"} :
       k \in DOMAIN doc.academicInfo => doc.academicInfo[k] >= 0
  /\ \A k \in {"name", "relationship"} : Filled(doc.guardianInfo, k)
  /\ FilledPhone(doc.guardianInfo, "phone")
  /\ "email" \in DOMAIN doc.guardianInfo /\ GuardianEmailOK(doc.guardianInfo.email)
  /\ \A k \in {"name", "relationship"} : Filled(doc.emergencyContact, k)
  /\ FilledPhone(doc.emergencyContact, "phone")
  /\ doc.status \in SchemaStatuses

\* student.save(): validation, then the unique indexes on userId and studentId.
SaveStudentOK(S, doc) ==
  /\ ValidStudent(doc)
  /\ \A s \in DOMAIN S.students :
       /\ S.students[s].studentId # doc.studentId
       /\ S.students[s].userId # doc.userId

\* trim: true on a String path.  The one padded string requests carry is a
\* department typed with a blank on either side.
PaddedDepartment == " CSE "
trim(v) == IF v = PaddedDepartment THEN "CSE" ELSE v

\* The String subfields of academicInfo, trimmed
trimmed(academicInfo) ==
  [k \in DOMAIN academicInfo |->
     IF k \in {"collegeName", "department", "course", "specialization"}
       THEN trim(academicInfo[k])
       ELSE academicInfo[k]]

\* The defaults of the academicInfo subfields that are not required
AcademicDefaults ==
  [specialization |-> "", cgpa |-> 0, totalCredits |-> 0, earnedCredits |-> 0,
   attendancePercentage |-> 0]

NewStudent_NoAcademicDefaults(userId, studentId, phone, address, academicInfo, guardianInfo, emergencyContact) ==
  [userId |-> userId, studentId |-> studentId, status |-> "active", graduationDate |-> NoDate,
   phone |-> phone,
   address |-> Spread([country |-> "India"], address),
   academicInfo |-> trimmed(academicInfo),
   guardianInfo |-> guardianInfo,
   emergencyContact |-> emergencyContact]

\* new Student({...}): the schema defaults fill status, graduationDate,
\* address.country and the optional subfields of academicInfo when they are
\* not given, and the strings are trimmed.
NewStudent(userId, studentId, phone, address, academicInfo, guardianInfo, emergencyContact) ==
  [userId |-> userId, studentId |-> studentId, status |-> "active", graduationDate |-> NoDate,
   phone |-> phone,
   address |-> Spread([country |-> "India"], address),
   academicInfo |-> Spread(AcademicDefaults, trimmed(academicInfo)),
   guardianInfo |-> guardianInfo,
   emergencyContact |-> emergencyContact]

\* User documents; isActive defaults to true in the User schema.
DefaultIsActive == TRUE

NewUser(username, email, password, role, isActive) ==
  [username |-> username, email |-> email, password |-> password, role |-> role,
   isActive |-> isActive]

AdminCount(S) == Cardinality({u \in DOMAIN S.users : S.users[u].role = "admin"})

UserExists_EmailOnly(S, email, username) ==
  \E u \in DOMAIN S.users : S.users[u].email = email

\* User.findOne({ $or: [{ email }, { username }] })
UserExists(S, email, username) ==
  \E u \in DOMAIN S.users : S.users[u].email = email \/ S.users[u].username = username

\* User.findOne({ email })
EmailTaken(S, email) == \E u \in DOMAIN S.users : S.users[u].email = email

----------------------------------------------------------------------------
\* POST /api/auth/register

nonEmpty(v, fallback) == IF v # <<>> THEN v ELSE fallback

\* v || fallback on an optional object
orElse(v, fallback) == IF v # <<>> THEN v[1] ELSE fallback

\* req.body.studentData || {}
OmittedStudentData ==
  [studentId |-> NoStudentId, phone |-> NoPhone, address |-> <<>>, academicInfo |-> <<>>,
   guardianInfo |-> <<>>, emergencyContact |-> <<>>]

FullStudentData(studentId) ==
  [studentId |-> studentId, phone |-> GoodPhone, address |-> <<GivenAddress>>,
   academicInfo |-> <<GivenAcademicInfo>>, guardianInfo |-> <<GivenGuardianInfo>>,
   emergencyContact |-> <<GivenEmergencyContact>>]

\* studentData whose guardianInfo carries only some of its subfields
PartialStudentData(studentId) ==
  [FullStudentData(studentId) EXCEPT
     !.guardianInfo = <<[name |-> "Meera", relationship |-> "mother"]>>]

isFirstAdminOf(S, role, countFails) ==
  IF role = "admin"
    THEN IF countFails THEN TRUE ELSE AdminCount(S) = 0
    ELSE FALSE

\* The inline token check of register (not the protect middleware).
registerAuth(S, token) ==
  IF token.kind = "none"
    THEN [ok |-> FALSE, status |-> 401, message |-> "Authentication required to register new users"]
  ELSE IF ~jwtVerifies(token)
    THEN [ok |-> FALSE, status |-> 401, message |-> "Invalid authentication token"]
  ELSE IF token.id \notin DOMAIN S.users \/ S.users[token.id].role # "admin"
    THEN [ok |-> FALSE, status |-> 403, message |-> "Only admins can register new users"]
  ELSE [ok |-> TRUE, status |-> 200, message |-> ""]

register(S, req) ==
  LET isFirstAdmin == isFirstAdminOf(S, req.role, req.countFails)
      needAuth == ~isFirstAdmin /\ req.role # "student"
      auth == registerAuth(S, req.token)
      uid == S.nextId
      user == NewUser(req.username, req.email, req.password, req.role, DefaultIsActive)
      withUser == [S EXCEPT !.users = Put(S.users, uid, user), !.nextId = uid + 1]
      sd == req.studentData
      doc == NewStudent(uid,
                        nonEmpty(sd.studentId, <<"STU", uid>>),
                        nonEmpty(sd.phone, DefaultPhone),
                        orElse(sd.address, DefaultAddress),
                        orElse(sd.academicInfo, DefaultAcademicInfo),
                        orElse(sd.guardianInfo, DefaultGuardianInfo),
                        orElse(sd.emergencyContact, DefaultEmergencyContact))
      withStudent == [withUser EXCEPT !.students = Put(S.students, uid + 1, doc),
                                      !.nextId = uid + 2]
      info == [isFirstAdmin |-> isFirstAdmin, created |-> 0]
  IN IF needAuth /\ ~auth.ok
       THEN Res(S, auth.status, auth.message, info)
     ELSE IF UserExists(S, req.email, req.username)
       THEN Res(S, 400, "User with this email or username already exists", info)
     ELSE IF req.role = "student" /\ ~SaveStudentOK(withUser, doc)
       THEN Res([withUser EXCEPT !.nextId = uid + 2], 500, "Server error during registration", info)
     ELSE LET saved == IF req.role = "student" THEN withStudent ELSE withUser
          IN Res([saved EXCEPT !.issued = @ \cup {uid}], 201,
                 IF isFirstAdmin THEN "First admin user registered successfully"
                                 ELSE "User registered successfully",
                 [info EXCEPT !.created = uid])

RegisterReqs(S) ==
  {[username |-> n, email |-> e, password |-> p, role |-> "admin", token |-> t,
    countFails |-> c, studentData |-> OmittedStudentData] :
      n \in Usernames, e \in Emails, p \in RegPasswords, t \in TokensOf(S), c \in BOOLEAN}
  \cup
  {[username |-> n, email |-> e, password |-> p, role |-> "student", token |-> NoToken,
    countFails |-> FALSE, studentData |-> d] :
      n \in Usernames, e \in Emails, p \in RegPasswords,
      d \in {OmittedStudentData, PartialStudentData(NoStudentId)}
              \cup {FullStudentData(i) : i \in GivenStudentIds \cup {NoStudentId}}}

----------------------------------------------------------------------------
\* POST /api/auth/login

login(S, email, password) ==
  LET found == {u \in DOMAIN S.users : S.users[u].email = email}
  IN IF found = {}
       THEN Res(S, 401, "Invalid credentials", NoData)
     ELSE LET u == CHOOSE x \in found : TRUE
          IN IF ~S.users[u].isActive
               THEN Res(S, 401, "Account is deactivated. Please contact administrator.", NoData)
             ELSE IF S.users[u].password # password
               THEN Res(S, 401, "Invalid credentials", NoData)
             ELSE Res([S EXCEPT !.issued = @ \cup {u}], 200, "Login successful", NoData)

----------------------------------------------------------------------------
\* PUT /api/auth/profile (protect, bothRoles)

authUpdateProfile(S, token, email) ==
  LET g == Gate(bothRoles, S, token)
      me == S.users[g.user]
  IN IF ~g.ok THEN Rejected(S, g)
     ELSE IF email # Absent /\ email # me.email /\ EmailTaken(S, email)
       THEN Res(S, 400, "Email is already taken", NoData)
     ELSE Res([S EXCEPT !.users[g.user].email = IF email # Absent THEN email ELSE me.email],
              200, "Profile updated successfully", NoData)

----------------------------------------------------------------------------
\* /api/admin/* (router.use(protect, adminOnly))

\* GET /api/admin/students.  A query parameter is <<>> when it is left out
\* and <<v>> when it is given; page and limit are given as integers.
ListQueryValid(q) ==
  /\ q.page # <<>> => q.page[1] >= 1
  /\ q.limit # <<>> => q.limit[1] >= 1 /\ q.limit[1] <= 100
  /\ q.status # <<>> => q.status[1] \in AdminStatuses

\* parseInt(v) || fallback
intOr(v, fallback) == IF v = <<>> \/ v[1] = 0 THEN fallback ELSE v[1]

\* Math.ceil(a / b) for a >= 0 and b >= 1
ceilDiv(a, b) == (a + b - 1) \div b

\* .sort({ createdAt: -1 }): documents are created in the order of their ids
RECURSIVE newestFirst(_)
newestFirst(ids) ==
  IF ids = {} THEN <<>>
  ELSE LET m == CHOOSE x \in ids : \A y \in ids : y <= x
       IN <<m>> \o newestFirst(ids \ {m})

skipLimit_NoSkip(seq, skip, limit) ==
  SubSeq(seq, 1, IF limit < Len(seq) THEN limit ELSE Len(seq))

\* .skip(skip).limit(limit)
skipLimit(seq, skip, limit) ==
  SubSeq(seq, skip + 1, IF skip + limit < Len(seq) THEN skip + limit ELSE Len(seq))

\* Text is a sequence of characters.  A student id <<prefix, k>> reads as
\* the prefix followed by k in decimal.
DigitChars == <<"0", "1", "2", "3", "4", "5", "6", "7", "8", "9">>

RECURSIVE decimal(_)
decimal(n) ==
  IF n < 10 THEN <<DigitChars[n + 1]>>
  ELSE decimal(n \div 10) \o <<DigitChars[(n % 10) + 1]>>

studentIdText(id) ==
  (IF id[1] = "S" THEN <<"S">> ELSE <<"S", "T", "U">>) \o decimal(id[2])

\* $options: 'i' folds the case of the letters
toLower(c) ==
  CASE c = "A" -> "a" [] c = "B" -> "b" [] c = "C" -> "c" [] c = "D" -> "d"
    [] c = "S" -> "s" [] c = "T" -> "t" [] c = "U" -> "u" [] c = "V" -> "v"
    [] OTHER -> c

\* { $regex: term, $options: 'i' } for a term of letters, digits and '@':
\* the term occurs in the text, case folded
regexMatch(text, term) ==
  \E i \in 0..(Len(text) - Len(term)) :
    \A j \in 1..Len(term) : toLower(text[i + j]) = toLower(term[j])

\* filter.$or of the search, on one Student document.  The three clauses on
\* 'userId.firstName', 'userId.lastName' and 'userId.email' are evaluated by
\* Student.find, before populate, where userId is an ObjectId: such a clause
\* matches no document, or (emptied is TRUE) Mongoose's strictQuery cast has
\* emptied it to {} and it matches every document.
searchFilter(doc, term, emptied) ==
  \/ regexMatch(studentIdText(doc.studentId), term)
  \/ emptied
  \/ emptied
  \/ emptied

adminListStudents(S, token, q, emptied) ==
  LET g == Gate(adminOnly, S, token)
      page == intOr(q.page, 1)
      limit == intOr(q.limit, 10)
      skip == (page - 1) * limit
      matching == {s \in DOMAIN S.students :
                     /\ (q.search # <<>> /\ q.search[1] # <<>>) =>
                          searchFilter(S.students[s], q.search[1], emptied)
                     /\ q.status # <<>> => S.students[s].status = q.status[1]}
      total == Cardinality(matching)
  IN IF ~g.ok THEN Rejected(S, g)
     ELSE IF ~ListQueryValid(q)
       THEN Res(S, 400, "Validation failed", NoData)
     ELSE Res(S, 200, "",
              [students |-> skipLimit(newestFirst(matching), skip, limit),
               pagination |-> [currentPage |-> page,
                               totalPages |-> ceilDiv(total, limit),
                               totalStudents |-> total,
                               hasNextPage |-> page < ceilDiv(total, limit),
                               hasPrevPage |-> page > 1]])

\* GET /api/admin/students/:id.  userId is populated: <<user>>, or <<>> when
\* no User has that id.
adminGetStudent(S, token, sid) ==
  LET g == Gate(adminOnly, S, token)
      student == S.students[sid]
  IN IF ~g.ok THEN Rejected(S, g)
     ELSE IF sid \notin DOMAIN S.students
       THEN Res(S, 404, "Student not found", NoData)
     ELSE Res(S, 200, "",
              [student |->
                 [id |-> sid,
                  studentId |-> student.studentId,
                  userId |-> IF student.userId \in DOMAIN S.users
                               THEN <<[email |-> S.users[student.userId].email,
                                       username |-> S.users[student.userId].username,
                                       isActive |-> S.users[student.userId].isActive]>>
                               ELSE <<>>,
                  phone |-> student.phone,
                  address |-> student.address,
                  academicInfo |-> student.academicInfo,
                  guardianInfo |-> student.guardianInfo,
                  emergencyContact |-> student.emergencyContact,
                  status |-> student.status,
                  graduationDate |-> student.graduationDate]])

\* The express-validator chain of POST /api/admin/students
CreateBodyValid(req) ==
  /\ req.studentId # NoStudentId
  /\ PhoneOK(req.phone)
  /\ \A k \in {"street", "city", "state", "zipCode"} : Filled(req.address, k)
  /\ \A k \in {"collegeName", "department", "course"} : Filled(req.academicInfo, k)
  /\ InRange(req.academicInfo, "year", 1, 5)
  /\ InRange(req.academicInfo, "semester", 1, 8)
  /\ \A k \in {"totalCredits", "earnedCredits"} :
       k \in DOMAIN req.academicInfo => req.academicInfo[k] >= 0
  /\ "attendancePercentage" \in DOMAIN req.academicInfo =>
       InRange(req.academicInfo, "attendancePercentage", 0, 100)
  /\ \A k \in {"name", "relationship"} : Filled(req.guardianInfo, k)
  /\ FilledPhone(req.guardianInfo, "phone")
  /\ "email" \in DOMAIN req.guardianInfo /\ isEmail(req.guardianInfo.email)
  /\ \A k \in {"name", "relationship"} : Filled(req.emergencyContact, k)
  /\ FilledPhone(req.emergencyContact, "phone")

\* POST /api/admin/students
adminCreateStudent(S, token, req) ==
  LET g == Gate(adminOnly, S, token)
      uid == S.nextId
      user == NewUser(req.username, req.email, req.password, "student", DefaultIsActive)
      withUser == [S EXCEPT !.users = Put(S.users, uid, user), !.nextId = uid + 2]
      doc == NewStudent(uid, req.studentId, req.phone, req.address, req.academicInfo,
                        req.guardianInfo, req.emergencyContact)
  IN IF ~g.ok THEN Rejected(S, g)
     ELSE IF ~CreateBodyValid(req)
       THEN Res(S, 400, "Validation failed", NoData)
     ELSE IF UserExists(S, req.email, req.username)
       THEN Res(S, 400, "User with this email or username already exists", NoData)
     ELSE IF \E s \in DOMAIN S.students : S.students[s].studentId = req.studentId
       THEN Res(S, 400, "Student with this ID already exists", NoData)
     ELSE IF ~SaveStudentOK(withUser, doc)
       THEN Res(withUser, 500, "Server error while creating student", NoData)
     ELSE Res([withUser EXCEPT !.students = Put(S.students, uid + 1, doc)],
              201, "Student created successfully", NoData)

\* The express-validator chain of PUT /api/admin/students/:id
UpdateBodyValid(req) ==
  /\ req.phone # NoPhone => PhoneOK(req.phone)
  /\ req.academicInfo # <<>> =>
       LET ai == req.academicInfo[1]
       IN /\ "year" \in DOMAIN ai => InRange(ai, "year", 1, 5)
          /\ "semester" \in DOMAIN ai => InRange(ai, "semester", 1, 8)
          /\ "cgpa" \in DOMAIN ai => InRange(ai, "cgpa", 0, 10)
  /\ req.status # Absent => req.status \in AdminStatuses

studentUpdateData_Replace(student, req, now) ==
  [student EXCEPT
     !.phone = IF req.phone # NoPhone THEN req.phone ELSE @,
     !.address = IF req.address # <<>> THEN req.address[1] ELSE @,
     !.academicInfo = IF req.academicInfo # <<>> THEN req.academicInfo[1] ELSE @,
     !.guardianInfo = IF req.guardianInfo # <<>> THEN req.guardianInfo[1] ELSE @,
     !.emergencyContact = IF req.emergencyContact # <<>> THEN req.emergencyContact[1] ELSE @,
     !.status = IF req.status # Absent THEN req.status ELSE @,
     !.graduationDate = IF req.status = "graduated" /\ student.status # "graduated"
                          THEN now ELSE @]

\* studentUpdateData of PUT /api/admin/students/:id, applied to the stored
\* document; now is new Date() as the handler reads it.
studentUpdateData(student, req, now) ==
  [student EXCEPT
     !.phone = IF req.phone # NoPhone THEN req.phone ELSE @,
     !.address = IF req.address # <<>> THEN req.address[1] ELSE @,
     !.academicInfo = IF req.academicInfo # <<>> THEN Spread(@, req.academicInfo[1]) ELSE @,
     !.guardianInfo = IF req.guardianInfo # <<>> THEN Spread(@, req.guardianInfo[1]) ELSE @,
     !.emergencyContact = IF req.emergencyContact # <<>>
                            THEN Spread(@, req.emergencyContact[1]) ELSE @,
     !.status = IF req.status # Absent THEN req.status ELSE @,
     !.graduationDate = IF req.status = "graduated" /\ student.status # "graduated"
                          THEN now ELSE @]

\* PUT /api/admin/students/:id
adminUpdateStudent(S, token, sid, req, now) ==
  LET g == Gate(adminOnly, S, token)
      student == S.students[sid]
      owner == student.userId
      \* User.findByIdAndUpdate(student.userId, { email }); nothing when no such user
      S1 == IF req.email # Absent /\ owner \in DOMAIN S.users
              THEN [S EXCEPT !.users[owner].email = req.email]
              ELSE S
      updated == studentUpdateData(student, req, now)
  IN IF ~g.ok THEN Rejected(S, g)
     ELSE IF ~UpdateBodyValid(req)
       THEN Res(S, 400, "Validation failed", NoData)
     ELSE IF sid \notin DOMAIN S.students
       THEN Res(S, 404, "Student not found", NoData)
     ELSE IF req.email # Absent /\
             \E u \in DOMAIN S.users : S.users[u].email = req.email /\ u # owner
       THEN Res(S, 400, "Email is already taken by another user", NoData)
     \* runValidators: true
     ELSE IF ~ValidStudent(updated)
       THEN Res(S1, 500, "Server error while updating student", NoData)
     ELSE Res([S1 EXCEPT !.students[sid] = updated], 200, "Student updated successfully", NoData)

\* DELETE /api/admin/students/:id
adminDeleteStudent(S, token, sid) ==
  LET g == Gate(adminOnly, S, token)
  IN IF ~g.ok THEN Rejected(S, g)
     ELSE IF sid \notin DOMAIN S.students
       THEN Res(S, 404, "Student not found", NoData)
     ELSE Res([S EXCEPT !.students = Del(S.students, sid),
                        !.users = Del(S.users, S.students[sid].userId)],
              200, "Student deleted successfully", NoData)

setStatus_NoDate(student, status, now) == [student EXCEPT !.status = status]

setStatus_Always(student, status, now) ==
  [student EXCEPT !.status = status,
                  !.graduationDate = IF status = "graduated" THEN now ELSE @]

\* updateData of PUT /api/admin/students/:id/status, applied to the stored
\* document
setStatus(student, status, now) ==
  [student EXCEPT !.status = status,
                  !.graduationDate = IF status = "graduated" /\ student.status # "graduated"
                                       THEN now ELSE @]

\* PUT /api/admin/students/:id/status
adminSetStatus(S, token, sid, status, now) ==
  LET g == Gate(adminOnly, S, token)
  IN IF ~g.ok THEN Rejected(S, g)
     ELSE IF status \notin AdminStatuses
       THEN Res(S, 400, "Validation failed", NoData)
     ELSE IF sid \notin DOMAIN S.students
       THEN Res(S, 404, "Student not found", NoData)
     ELSE Res([S EXCEPT !.students[sid] = setStatus(@, status, now)],
              200, "Student status updated successfully", NoData)

\* GET /api/admin/students/:id/fee-structure.  A stored amount is <<>> when
\* the document has none and <<n>> otherwise.
\* v || fallback on a number
amountOr(v, fallback) == IF v = <<>> \/ v[1] = 0 THEN fallback ELSE v[1]

\* The 'Total Fees:' row of the fee breakdown
feeTotal(student) ==
  amountOr(student.financialInfo.totalFees, 40000)
    + (IF student.hostelInfo.isHostelite
         THEN amountOr(student.hostelInfo.hostelFees, 0)
         ELSE 0)

\* The 'Balance Amount:' row
feeBalance(student) ==
  feeTotal(student)
    - amountOr(student.financialInfo.scholarshipAmount, 0)
    - amountOr(student.financialInfo.paidFees, 0)

adminFeeStructure(S, token, sid) ==
  LET g == Gate(adminOnly, S, token)
  IN IF ~g.ok THEN Rejected(S, g)
     ELSE IF sid \notin DOMAIN S.students
       THEN Res(S, 404, "Student not found", NoData)
     ELSE Res(S, 200, "",
              [totalFees |-> feeTotal(S.students[sid]),
               paidAmount |-> amountOr(S.students[sid].financialInfo.paidFees, 0),
               scholarshipAmount |->
                 amountOr(S.students[sid].financialInfo.scholarshipAmount, 0),
               balanceAmount |-> feeBalance(S.students[sid])])

\* POST /api/admin/users
createUser(S, token, req) ==
  LET g == Gate(adminOnly, S, token)
      uid == S.nextId
      user == NewUser(req.username, req.email, req.password, req.role, TRUE)
  IN IF ~g.ok THEN Rejected(S, g)
     ELSE IF UserExists(S, req.email, req.username)
       THEN Res(S, 400, "User with this email or username already exists", NoData)
     ELSE Res([S EXCEPT !.users = Put(S.users, uid, user), !.nextId = uid + 1],
              201, "User created successfully", NoData)

\* PUT /api/admin/users/:id; req.isActive is <<b>> for a boolean b, <<>> otherwise
updateUser(S, token, id, req) ==
  LET g == Gate(adminOnly, S, token)
      user == S.users[id]
      updated == [user EXCEPT !.email = IF req.email # Absent THEN req.email ELSE @,
                              !.role = IF req.role # Absent THEN req.role ELSE @,
                              !.isActive = IF req.isActive # <<>> THEN req.isActive[1] ELSE @]
  IN IF ~g.ok THEN Rejected(S, g)
     ELSE IF id \notin DOMAIN S.users
       THEN Res(S, 404, "User not found", NoData)
     ELSE IF req.email # Absent /\ req.email # user.email /\ EmailTaken(S, req.email)
       THEN Res(S, 400, "User with this email already exists", NoData)
     ELSE Res([S EXCEPT !.users[id] = updated], 200, "User updated successfully", NoData)

\* DELETE /api/admin/users/:id
deleteUser_OffByOne(S, token, id) ==
  LET g == Gate(adminOnly, S, token)
      owned == {s \in DOMAIN S.students : S.students[s].userId = id}
      S1 == [S EXCEPT !.users = Del(S.users, id)]
      S2 == IF S.users[id].role = "student" /\ owned # {}
              THEN [S1 EXCEPT !.students = Del(S.students, CHOOSE s \in owned : TRUE)]
              ELSE S1
  IN IF ~g.ok THEN Rejected(S, g)
     ELSE IF id \notin DOMAIN S.users
       THEN Res(S, 404, "User not found", NoData)
     ELSE IF S.users[id].role = "admin" /\ AdminCount(S) < 1
       THEN Res(S, 400, "Cannot delete the last admin user", NoData)
     ELSE Res(S2, 200, "User deleted successfully", NoData)

deleteUser(S, token, id) ==
  LET g == Gate(adminOnly, S, token)
      owned == {s \in DOMAIN S.students : S.students[s].userId = id}
      \* Student.findOneAndDelete({ userId }) removes the first match
      S1 == [S EXCEPT !.users = Del(S.users, id)]
      S2 == IF S.users[id].role = "student" /\ owned # {}
              THEN [S1 EXCEPT !.students = Del(S.students, CHOOSE s \in owned : TRUE)]
              ELSE S1
  IN IF ~g.ok THEN Rejected(S, g)
     ELSE IF id \notin DOMAIN S.users
       THEN Res(S, 404, "User not found", NoData)
     ELSE IF S.users[id].role = "admin" /\ AdminCount(S) <= 1
       THEN Res(S, 400, "Cannot delete the last admin user", NoData)
     ELSE Res(S2, 200, "User deleted successfully", NoData)

----------------------------------------------------------------------------
\* /api/student/* (router.use(protect, studentOnly))

\* The five GET routes; Populates(route) when the route populates userId.
StudentGetRoutes == {"profile", "academic-record", "personal-info", "documents", "status"}
Populates(route) == route \in {"profile", "personal-info"}

OwnRecords_AnyRecord(S, uid) == DOMAIN S.students

\* Student.findOne({ userId: req.user._id })
OwnRecords(S, uid) == {s \in DOMAIN S.students : S.students[s].userId = uid}

\* data.students / data.users: the documents whose fields the response carries
studentGet(S, token, route) ==
  LET g == Gate(studentOnly, S, token)
      own == OwnRecords(S, g.user)
  IN IF ~g.ok THEN Rejected(S, g)
     ELSE IF own = {}
       THEN Res(S, 404, "Student profile not found", [students |-> {}, users |-> {}])
     ELSE LET sid == CHOOSE s \in own : TRUE
          IN Res(S, 200, "",
                 [students |-> {sid},
                  users |-> IF Populates(route)
                              THEN {S.students[sid].userId} \cap DOMAIN S.users ELSE {}])

\* The express-validator chain of PUT /api/student/profile
ProfileBodyValid(body) ==
  /\ body.phone # NoPhone => PhoneOK(body.phone)
  /\ body.address # <<>> =>
       \A k \in {"street", "city", "state", "zipCode"} \cap DOMAIN body.address[1] :
         body.address[1][k] # ""
  /\ body.emergencyContact # <<>> =>
       LET ec == body.emergencyContact[1]
       IN /\ "name" \in DOMAIN ec => ec.name # ""
          /\ "phone" \in DOMAIN ec => PhoneOK(ec.phone)

ownProfileUpdate_WithStatus(student, body) ==
  [student EXCEPT
     !.phone = IF body.phone # NoPhone THEN body.phone ELSE @,
     !.address = IF body.address # <<>> THEN Spread(@, body.address[1]) ELSE @,
     !.emergencyContact = IF body.emergencyContact # <<>>
                            THEN Spread(@, body.emergencyContact[1]) ELSE @,
     !.status = IF body.status # Absent THEN body.status ELSE @]

ownProfileUpdate_Replace(student, body) ==
  [student EXCEPT
     !.phone = IF body.phone # NoPhone THEN body.phone ELSE @,
     !.address = IF body.address # <<>> THEN body.address[1] ELSE @,
     !.emergencyContact = IF body.emergencyContact # <<>>
                            THEN body.emergencyContact[1] ELSE @]

\* updateData of PUT /api/student/profile, applied to the stored document:
\* only phone, address and emergencyContact are read from the body.
ownProfileUpdate(student, body) ==
  [student EXCEPT
     !.phone = IF body.phone # NoPhone THEN body.phone ELSE @,
     !.address = IF body.address # <<>> THEN Spread(@, body.address[1]) ELSE @,
     !.emergencyContact = IF body.emergencyContact # <<>>
                            THEN Spread(@, body.emergencyContact[1]) ELSE @]

\* PUT /api/student/profile
studentUpdateProfile(S, token, body) ==
  LET g == Gate(studentOnly, S, token)
      own == OwnRecords(S, g.user)
  IN IF ~g.ok THEN Rejected(S, g)
     ELSE IF ~ProfileBodyValid(body)
       THEN Res(S, 400, "Validation failed", [students |-> {}, users |-> {}])
     ELSE IF own = {}
       THEN Res(S, 404, "Student profile not found", [students |-> {}, users |-> {}])
     ELSE LET sid == CHOOSE s \in own : TRUE
              updated == ownProfileUpdate(S.students[sid], body)
          IN \* runValidators: true
             IF ~ValidStudent(updated)
               THEN Res(S, 500, "Server error while updating profile",
                        [students |-> {}, users |-> {}])
             ELSE Res([S EXCEPT !.students[sid] = updated],
                      200, "Profile updated successfully",
                      [students |-> {sid}, users |-> {S.students[sid].userId} \cap DOMAIN S.users])

----------------------------------------------------------------------------
\* Actions

\* No contact message is stored or mailed; no request is in flight.
NoMail == contacts = <<>> /\ outbox = <<>>
NoneInFlight == pending = <<>>

\* A request that allocates ObjectIds is taken while ids are left.
Apply(r) ==
  /\ r.st.nextId <= MaxIds + 1 \/ r.st.nextId = nextId
  /\ users' = r.st.users
  /\ students' = r.st.students
  /\ issued' = r.st.issued
  /\ nextId' = r.st.nextId
  /\ UNCHANGED <<contacts, outbox, pending>>

Register == \E req \in RegisterReqs(Store) : Apply(register(Store, req))

UnknownEmail == "nobody@vdcet.in"

Login ==
  \E e \in Emails \cup {UnknownEmail}, p \in LoginPasswords : Apply(login(Store, e, p))

Init ==
  /\ users = <<>>
  /\ students = <<>>
  /\ issued = {}
  /\ nextId = 1
  /\ NoMail /\ NoneInFlight

\* The _ids a request may name: every stored document, and one id that
\* matches nothing (the next one to be allocated)
UserIds == DOMAIN users \cup {nextId}
StudentIds == DOMAIN students \cup {nextId}

CreateReqs ==
  [username : Usernames, email : Emails, password : RegPasswords, role : Roles]

\* Bodies of POST /api/admin/students that pass the validator chain; the
\* guardian's e-mail is one the schema accepts too, or one only isEmail accepts.
CreateStudentReqs ==
  [username : Usernames, email : Emails, password : RegPasswords,
   studentId : GivenStudentIds, phone : {GoodPhone}, address : {GivenAddress},
   academicInfo : {GivenAcademicInfo}, guardianInfo : {GivenGuardianInfo},
   emergencyContact : {GivenEmergencyContact}]
  \cup
  [username : Usernames, email : Emails, password : RegPasswords,
   studentId : {<<"S", 1>>}, phone : {GoodPhone}, address : {GivenAddress},
   academicInfo : {GivenAcademicInfo},
   guardianInfo : {[GivenGuardianInfo EXCEPT !.email = LongTldGuardianEmail]},
   emergencyContact : {GivenEmergencyContact}]

UpdateStatuses == {"inactive", "graduated", "transferred"}

NoStudentUpdate ==
  [email |-> Absent, phone |-> NoPhone, address |-> <<>>, academicInfo |-> <<>>,
   guardianInfo |-> <<>>, emergencyContact |-> <<>>, status |-> Absent]

UpdateStudentReqs ==
  {[NoStudentUpdate EXCEPT !.email = e] : e \in Emails}
  \cup {[NoStudentUpdate EXCEPT !.phone = ph] : ph \in {AltPhone, DefaultPhone}}
  \cup {[NoStudentUpdate EXCEPT !.status = st] : st \in {"graduated", "transferred"}}

NoUserUpdate == [email |-> Absent, role |-> Absent, isActive |-> <<>>]

UpdateUserReqs ==
  {NoUserUpdate}
  \cup {[NoUserUpdate EXCEPT !.email = e] : e \in Emails}
  \cup {[NoUserUpdate EXCEPT !.role = r] : r \in Roles}
  \cup {[NoUserUpdate EXCEPT !.isActive = <<b>>] : b \in BOOLEAN}

AuthUpdateProfile ==
  \E t \in TokensOf(Store), e \in Emails \cup {Absent} : Apply(authUpdateProfile(Store, t, e))

AdminCreateStudent ==
  \E t \in TokensOf(Store), req \in CreateStudentReqs : Apply(adminCreateStudent(Store, t, req))

\* Queries of the student list as the actions send them: page and limit left
\* out or given, the limit in range or not, a status filter or none.
ListQueries ==
  {[page |-> <<>>, limit |-> <<>>, status |-> <<>>, search |-> <<>>],
   [page |-> <<2>>, limit |-> <<2>>, status |-> <<"inactive">>, search |-> <<>>],
   [page |-> <<>>, limit |-> <<101>>, status |-> <<>>, search |-> <<>>],
   [page |-> <<>>, limit |-> <<>>, status |-> <<>>, search |-> << <<"s", "1">> >>]}

AdminListStudents ==
  \E t \in TokensOf(Store), q \in ListQueries, emptied \in BOOLEAN :
    Apply(adminListStudents(Store, t, q, emptied))

AdminUpdateStudent ==
  \E t \in TokensOf(Store), sid \in StudentIds, req \in UpdateStudentReqs :
    Apply(adminUpdateStudent(Store, t, sid, req, Today))

AdminDeleteStudent ==
  \E t \in TokensOf(Store), sid \in StudentIds : Apply(adminDeleteStudent(Store, t, sid))

AdminSetStatus ==
  \E t \in TokensOf(Store), sid \in StudentIds, st \in UpdateStatuses :
    Apply(adminSetStatus(Store, t, sid, st, Today))

CreateUser ==
  \E t \in TokensOf(Store), req \in CreateReqs : Apply(createUser(Store, t, req))

UpdateUser ==
  \E t \in TokensOf(Store), id \in UserIds, req \in UpdateUserReqs :
    Apply(updateUser(Store, t, id, req))

DeleteUser ==
  \E t \in TokensOf(Store), id \in UserIds : Apply(deleteUser(Store, t, id))

StudentGet ==
  \E t \in TokensOf(Store), route \in StudentGetRoutes : Apply(studentGet(Store, t, route))

\* A body of PUT /api/student/profile; the fields below emergencyContact are
\* ones a caller may send although the handler never reads them.
NoProfileUpdate ==
  [phone |-> NoPhone, address |-> <<>>, emergencyContact |-> <<>>,
   status |-> Absent, studentId |-> NoStudentId, graduationDate |-> NoDate,
   academicInfo |-> <<>>, guardianInfo |-> <<>>]

PhoneBody(ph) == [NoProfileUpdate EXCEPT !.phone = ph]

StudentUpdateProfile ==
  \E t \in TokensOf(Store), ph \in {NoPhone, AltPhone, GoodPhone, DefaultPhone} :
    Apply(studentUpdateProfile(Store, t, PhoneBody(ph)))

Next ==
  \/ Register
  \/ Login
  \/ AuthUpdateProfile
  \/ AdminListStudents
  \/ AdminCreateStudent
  \/ AdminUpdateStudent
  \/ AdminDeleteStudent
  \/ AdminSetStatus
  \/ CreateUser
  \/ UpdateUser
  \/ DeleteUser
  \/ StudentGet
  \/ StudentUpdateProfile

Spec == Init /\ [][Next]_vars

----------------------------------------------------------------------------
\* The record of one student under edits.  The store holds an admin and one
\* student with its record, as register and adminCreateStudent leave them;
\* the student edits its own profile and the admin edits the record and its
\* status, at either clock reading.

ProfileInit ==
  /\ users = Put(Put(<<>>, 1, NewUser("asha", "a@vdcet.in", "secret1", "admin", DefaultIsActive)),
                 2, NewUser("ravi", "b@vdcet.in", "secret1", "student", DefaultIsActive))
  /\ students = Put(<<>>, 3, NewStudent(2, <<"S", 1>>, GoodPhone, GivenAddress, GivenAcademicInfo,
                                       GivenGuardianInfo, GivenEmergencyContact))
  /\ issued = {1, 2}
  /\ nextId = 4
  /\ NoMail /\ NoneInFlight

\* Bodies the student sends: a phone, part of an address, part of an
\* emergency contact.
OwnEdits ==
  {PhoneBody(AltPhone),
   [NoProfileUpdate EXCEPT !.address = <<[city |-> "Nashik"]>>],
   [NoProfileUpdate EXCEPT !.address = <<[street |-> "4 FC Road", zipCode |-> "422001"]>>],
   [NoProfileUpdate EXCEPT !.emergencyContact = <<[name |-> "Leela"]>>],
   [NoProfileUpdate EXCEPT !.emergencyContact = <<[phone |-> AltPhone]>>,
                           !.status = "graduated"]}

\* Bodies the admin sends: part of academicInfo, of guardianInfo, of
\* emergencyContact, or a status.
StudentEdits ==
  {[NoStudentUpdate EXCEPT !.academicInfo = <<[year |-> 3, semester |-> 5]>>],
   [NoStudentUpdate EXCEPT !.academicInfo = <<[cgpa |-> 8]>>],
   [NoStudentUpdate EXCEPT !.guardianInfo = <<[phone |-> AltPhone]>>],
   [NoStudentUpdate EXCEPT !.emergencyContact = <<[relationship |-> "aunt"]>>],
   [NoStudentUpdate EXCEPT !.status = "graduated"],
   [NoStudentUpdate EXCEPT !.status = "active"]}

EditOwnProfile ==
  \E t \in TokensOf(Store), body \in OwnEdits : Apply(studentUpdateProfile(Store, t, body))

EditStudent ==
  \E t \in TokensOf(Store), sid \in DOMAIN students, req \in StudentEdits, now \in Dates :
    Apply(adminUpdateStudent(Store, t, sid, req, now))

SetStatus ==
  \E t \in TokensOf(Store), sid \in DOMAIN students, st \in {"graduated", "suspended"},
     now \in Dates :
    Apply(adminSetStatus(Store, t, sid, st, now))

ProfileNext ==
  \/ EditOwnProfile
  \/ EditStudent
  \/ SetStatus

ProfileSpec == ProfileInit /\ [][ProfileNext]_vars

----------------------------------------------------------------------------
\* The student list over larger collections.  The store holds an admin and
\* n students with their records, created one after the other; the admin
\* lists them and deactivates some.

MaxListed == 11

\* Usernames and e-mail names of the listed students
Roll ==
  <<"s01", "s02", "s03", "s04", "s05", "s06", "s07", "s08", "s09", "s10", "s11", "s12", "s13">>

ListedUsers(n) ==
  [u \in {1} \cup {2 * i : i \in 1..n} |->
     IF u = 1 THEN NewUser("asha", "a@vdcet.in", "secret1", "admin", DefaultIsActive)
     ELSE NewUser(Roll[u \div 2], Roll[u \div 2], "secret1", "student", DefaultIsActive)]

ListedStudents(n) ==
  [s \in {2 * i + 1 : i \in 1..n} |->
     NewStudent(s - 1, <<"S", s \div 2>>, GoodPhone, GivenAddress, GivenAcademicInfo,
                GivenGuardianInfo, GivenEmergencyContact)]

ListInit ==
  \E n \in 0..MaxListed :
    /\ n <= Len(Roll)
    /\ users = ListedUsers(n)
    /\ students = ListedStudents(n)
    /\ issued = {1}
    /\ nextId = 2 * n + 2
    /\ NoMail /\ NoneInFlight

DeactivateStudent ==
  \E t \in TokensOf(Store), sid \in DOMAIN students :
    Apply(adminSetStatus(Store, t, sid, "inactive", Today))

ListNext ==
  \/ AdminListStudents
  \/ DeactivateStudent

ListSpec == ListInit /\ [][ListNext]_vars

----------------------------------------------------------------------------
\* The fee-structure document.  The store holds an admin and one student
\* whose record carries the amounts of financialInfo and hostelInfo, each
\* missing, zero (the schema default) or positive; the admin downloads the
\* document.

StoredAmounts(n) == {<<>>, <<0>>, <<n>>, <<n + 2500>>}

FeeRecords ==
  {[f \in DOMAIN ListedStudents(1)[3] \cup {"financialInfo", "hostelInfo"} |->
      IF f = "financialInfo" THEN fin
      ELSE IF f = "hostelInfo" THEN hos
      ELSE ListedStudents(1)[3][f]] :
     fin \in [totalFees : StoredAmounts(40000), paidFees : StoredAmounts(10000),
              scholarshipAmount : StoredAmounts(5000)],
     hos \in [isHostelite : BOOLEAN, hostelFees : StoredAmounts(15000)]}

FeeInit ==
  /\ users = ListedUsers(1)
  /\ \E doc \in FeeRecords : students = [s \in {3} |-> doc]
  /\ issued = {1}
  /\ nextId = 4
  /\ NoMail /\ NoneInFlight

AdminFeeStructure ==
  \E t \in TokensOf(Store), sid \in StudentIds : Apply(adminFeeStructure(Store, t, sid))

FeeSpec == FeeInit /\ [][AdminFeeStructure]_vars

----------------------------------------------------------------------------
\* Requests in flight.  A handler gives way to other requests at each await;
\* pending maps the slot of a request in flight to its route, the await it
\* has reached (pc) and what it has read so far.  A request that has been
\* answered stays in its slot with pc "done" and the status it was answered.

MaxInFlight == 2

AtPc(slot, pc) == slot \in DOMAIN pending /\ pending[slot].pc = pc

StoreUnchanged == UNCHANGED <<users, students, issued, nextId, contacts, outbox>>

\* DELETE /api/admin/users/:id, await by await.
DeleteRequest(pc, id, role, status) ==
  [route |-> "deleteUser", pc |-> pc, id |-> id, role |-> role, status |-> status]

\* router.use(protect, adminOnly)
DeleteUserGate(slot) ==
  \E token \in TokensOf(Store), id \in UserIds :
    LET g == Gate(adminOnly, Store, token)
    IN /\ slot \notin DOMAIN pending
       /\ pending' = Put(pending, slot,
                         IF g.ok THEN DeleteRequest("find", id, "", 0)
                         ELSE DeleteRequest("done", id, "", g.status))
       /\ StoreUnchanged

\* const user = await User.findById(userId)
DeleteUserFind(slot) ==
  LET id == pending[slot].id
  IN /\ AtPc(slot, "find")
     /\ pending' = [pending EXCEPT ![slot] =
                      IF id \notin DOMAIN users THEN DeleteRequest("done", id, "", 404)
                      ELSE IF users[id].role = "admin"
                        THEN DeleteRequest("count", id, "admin", 0)
                      ELSE DeleteRequest("delete", id, users[id].role, 0)]
     /\ StoreUnchanged

\* const adminCount = await User.countDocuments({ role: 'admin' })
DeleteUserCount(slot) ==
  /\ AtPc(slot, "count")
  /\ pending' = [pending EXCEPT ![slot] =
                   IF AdminCount(Store) <= 1
                     THEN DeleteRequest("done", @.id, @.role, 400)
                     ELSE DeleteRequest("delete", @.id, @.role, 0)]
  /\ StoreUnchanged

\* await User.findByIdAndDelete(userId)
DeleteUserDelete(slot) ==
  /\ AtPc(slot, "delete")
  /\ users' = Del(users, pending[slot].id)
  /\ pending' = [pending EXCEPT ![slot] =
                   IF @.role = "student"
                     THEN DeleteRequest("cascade", @.id, @.role, 0)
                     ELSE DeleteRequest("done", @.id, @.role, 200)]
  /\ UNCHANGED <<students, issued, nextId, contacts, outbox>>

\* await Student.findOneAndDelete({ userId: userId })
DeleteUserCascade(slot) ==
  LET owned == {s \in DOMAIN students : students[s].userId = pending[slot].id}
  IN /\ AtPc(slot, "cascade")
     /\ students' = IF owned = {} THEN students
                    ELSE Del(students, CHOOSE s \in owned : TRUE)
     /\ pending' = [pending EXCEPT ![slot] = DeleteRequest("done", @.id, @.role, 200)]
     /\ UNCHANGED <<users, issued, nextId, contacts, outbox>>

\* Two admins with their tokens, and a student with its record
DeleteInit ==
  /\ users = Put(Put(ListedUsers(1), 3, NewUser("ravi", "b@vdcet.in", "secret1", "admin",
                                                DefaultIsActive)),
                 2, ListedUsers(1)[2])
  /\ students = Put(<<>>, 4, ListedStudents(1)[3])
  /\ issued = {1, 3}
  /\ nextId = 5
  /\ NoMail /\ NoneInFlight

DeleteNext ==
  \E slot \in 1..MaxInFlight :
    \/ DeleteUserGate(slot)
    \/ DeleteUserFind(slot)
    \/ DeleteUserCount(slot)
    \/ DeleteUserDelete(slot)
    \/ DeleteUserCascade(slot)

DeleteSpec == DeleteInit /\ [][DeleteNext]_vars

\* POST /api/auth/register with role = admin, await by await.  The requests
\* in flight carry no valid token and differ in username and in email.
RegisterRequest(pc, body, isFirstAdmin, status) ==
  [route |-> "register", pc |-> pc, body |-> body, isFirstAdmin |-> isFirstAdmin,
   status |-> status]

\* The request arrives and the handler runs up to its first await
RegisterArrive(slot) ==
  \E body \in [username : Usernames, email : Emails, password : RegPasswords,
              token : {NoToken, BadToken}] :
    /\ slot \notin DOMAIN pending
    /\ \A other \in DOMAIN pending :
         /\ pending[other].body.username # body.username
         /\ pending[other].body.email # body.email
    /\ pending' = Put(pending, slot, RegisterRequest("count", body, FALSE, 0))
    /\ StoreUnchanged

\* const adminCount = await User.countDocuments({ role: 'admin' }), and the
\* inline token check that follows when the request is not the first admin's
RegisterCount(slot) ==
  LET isFirstAdmin == isFirstAdminOf(Store, "admin", FALSE)
      auth == registerAuth(Store, pending[slot].body.token)
  IN /\ AtPc(slot, "count")
     /\ pending' = [pending EXCEPT ![slot] =
                      IF ~isFirstAdmin /\ ~auth.ok
                        THEN RegisterRequest("done", @.body, isFirstAdmin, auth.status)
                        ELSE RegisterRequest("find", @.body, isFirstAdmin, 0)]
     /\ StoreUnchanged

\* const existingUser = await User.findOne({ $or: [{ email }, { username }] })
RegisterFind(slot) ==
  /\ AtPc(slot, "find")
  /\ pending' = [pending EXCEPT ![slot] =
                   IF UserExists(Store, @.body.email, @.body.username)
                     THEN RegisterRequest("done", @.body, @.isFirstAdmin, 400)
                     ELSE RegisterRequest("save", @.body, @.isFirstAdmin, 0)]
  /\ StoreUnchanged

\* await user.save(), then the token and the 201 answer
RegisterSave(slot) ==
  LET body == pending[slot].body
  IN /\ AtPc(slot, "save")
     /\ users' = Put(users, nextId,
                     NewUser(body.username, body.email, body.password, "admin", DefaultIsActive))
     /\ issued' = issued \cup {nextId}
     /\ nextId' = nextId + 1
     /\ pending' = [pending EXCEPT ![slot] =
                      RegisterRequest("done", @.body, @.isFirstAdmin, 201)]
     /\ UNCHANGED <<students, contacts, outbox>>

\* No admin: the collections are empty, or hold one student user
RaceInit ==
  \E n \in 0..1 :
    /\ users = [u \in 1..n |-> ListedUsers(1)[2]]
    /\ students = <<>>
    /\ issued = 1..n
    /\ nextId = n + 1
    /\ NoMail /\ NoneInFlight

RaceNext ==
  \E slot \in 1..MaxInFlight :
    \/ RegisterArrive(slot)
    \/ RegisterCount(slot)
    \/ RegisterFind(slot)
    \/ RegisterSave(slot)

RaceSpec == RaceInit /\ [][RaceNext]_vars

----------------------------------------------------------------------------
\* Creating a student and reading it back.  The store holds an admin; the
\* admin creates a student with an academicInfo that carries the required
\* subfields and any of the optional ones, and reads records by id.

AcademicPayloads ==
  {Spread([collegeName |-> "VDCET", department |-> d, course |-> "BTech", year |-> 2,
           semester |-> 3],
          [k \in opt |-> CASE k = "specialization" -> "AI"
                           [] k = "cgpa" -> 8
                           [] k = "totalCredits" -> 120
                           [] k = "earnedCredits" -> 60
                           [] k = "attendancePercentage" -> 75]) :
     d \in {"CSE", PaddedDepartment},
     opt \in SUBSET {"specialization", "cgpa", "totalCredits", "earnedCredits",
                     "attendancePercentage"}}

CreatePayloads ==
  [username : Usernames, email : Emails, password : RegPasswords,
   studentId : GivenStudentIds, phone : {GoodPhone}, address : {GivenAddress},
   academicInfo : AcademicPayloads, guardianInfo : {GivenGuardianInfo},
   emergencyContact : {GivenEmergencyContact}]

CreateInit ==
  /\ users = Put(<<>>, 1, NewUser("admin", "admin@college.com", "secret1", "admin",
                                  DefaultIsActive))
  /\ students = <<>>
  /\ issued = {1}
  /\ nextId = 2
  /\ NoMail /\ NoneInFlight

CreateStudent ==
  \E t \in TokensOf(Store), req \in CreatePayloads : Apply(adminCreateStudent(Store, t, req))

GetStudent ==
  \E t \in TokensOf(Store), sid \in StudentIds : Apply(adminGetStudent(Store, t, sid))

CreateNext ==
  \/ CreateStudent
  \/ GetStudent

CreateSpec == CreateInit /\ [][CreateNext]_vars

----------------------------------------------------------------------------
\* POST /api/contact (public).  The ContactMessages collection is the
\* sequence contacts, in the order of the saves; outbox holds the mails the
\* relay has accepted.

MaxMessages == 3

\* A field of the body is "" when it is empty or left out.
ContactBodies ==
  [name : {"", "Asha"}, email : {"", "asha@mail.in"}, subject : {"", "Fees", "Hostel"},
   message : {"", "Hello", "Please call"}]

ContactStore == [contacts |-> contacts, outbox |-> outbox]

\* new Contact({ name, email, subject, message })
newContact(body) ==
  [name |-> body.name, email |-> body.email, subject |-> body.subject,
   message |-> body.message]

mailOptions(body) ==
  [from |-> body.email, subject |-> body.subject, text |-> body.message]

ContactRes(C, status, msg) ==
  [contacts |-> C.contacts, outbox |-> C.outbox, status |-> status, msg |-> msg]

sendMessage_RelayFirst(C, body, relayFails) ==
  IF body.name = "" \/ body.email = "" \/ body.subject = "" \/ body.message = ""
    THEN ContactRes(C, 400, "All fields (name, email, subject, message) are required")
  ELSE IF relayFails
    THEN ContactRes(C, 500, "Failed to send message")
  ELSE ContactRes([contacts |-> Append(C.contacts, newContact(body)),
                   outbox |-> Append(C.outbox, mailOptions(body))],
                  200, "Message sent successfully!")

\* sendMessage; relayFails says that transporter.sendMail throws
sendMessage(C, body, relayFails) ==
  LET saved == [C EXCEPT !.contacts = Append(@, newContact(body))]
  IN IF body.name = "" \/ body.email = "" \/ body.subject = "" \/ body.message = ""
       THEN ContactRes(C, 400, "All fields (name, email, subject, message) are required")
     ELSE IF relayFails
       THEN ContactRes(saved, 500, "Failed to send message")
     ELSE ContactRes([saved EXCEPT !.outbox = Append(@, mailOptions(body))],
                     200, "Message sent successfully!")

ContactInit ==
  /\ users = <<>>
  /\ students = <<>>
  /\ issued = {}
  /\ nextId = 1
  /\ NoMail /\ NoneInFlight

SubmitMessage ==
  \E body \in ContactBodies, relayFails \in BOOLEAN :
    LET r == sendMessage(ContactStore, body, relayFails)
    IN /\ Len(r.contacts) <= MaxMessages
       /\ contacts' = r.contacts
       /\ outbox' = r.outbox
       /\ UNCHANGED <<users, students, issued, nextId, pending>>

ContactSpec == ContactInit /\ [][SubmitMessage]_vars

----------------------------------------------------------------------------
\* Properties

Admins == {u \in DOMAIN users : users[u].role = "admin"}
ActiveAdmins == {u \in Admins : users[u].isActive}

\* The caller of a request with this token, as the gate is specified: the
\* token verifies, its user exists and is active, and has one of the roles.
Admitted(t, roles) ==
  /\ t.kind = "jwt"
  /\ t.id \in DOMAIN users
  /\ users[t.id].isActive
  /\ users[t.id].role \in roles

SameStore(r) == r.st.users = users /\ r.st.students = students

\* C1: once an active admin user exists, every operation leaves at least one
\* User with role = admin and isActive = true.
C1_ActiveAdminKept == [][ActiveAdmins # {} => ActiveAdmins' # {}]_vars

\* C2: deleteUser on an admin user is refused with 400 'Cannot delete the
\* last admin user', leaving Users unchanged, when that user is the only
\* admin; with two or more admins it returns 200 and removes exactly that user.
C2_DeleteLastAdmin ==
  \A t \in TokensOf(Store), id \in DOMAIN users :
    LET r == deleteUser(Store, t, id)
    IN (Admitted(t, {"admin"}) /\ id \in Admins) =>
         IF Cardinality(Admins) = 1
           THEN /\ r.status = 400
                /\ r.message = "Cannot delete the last admin user"
                /\ r.st.users = users
           ELSE /\ r.status = 200
                /\ DOMAIN r.st.users = DOMAIN users \ {id}
                /\ \A u \in DOMAIN users \ {id} : r.st.users[u] = users[u]

\* A store with a single admin whose deleteUser request on itself is refused.
C2_Witness ==
  \E t \in TokensOf(Store), id \in DOMAIN users :
    /\ Admitted(t, {"admin"}) /\ id \in Admins /\ Cardinality(Admins) = 1
    /\ deleteUser(Store, t, id).status = 400

\* A store with two admins where deleteUser on one of them succeeds.
C2_WitnessTwoAdmins ==
  \E t \in TokensOf(Store), id \in DOMAIN users :
    /\ Admitted(t, {"admin"}) /\ id \in Admins /\ Cardinality(Admins) = 2
    /\ deleteUser(Store, t, id).status = 200

AdminRegisterReqs(t) ==
  {req \in RegisterReqs(Store) : req.role = "admin" /\ req.token = t}

\* C3: register with role = admin and no token succeeds with isFirstAdmin =
\* true when no admin exists; once an admin exists, every register with
\* role = admin and no token returns 401 and creates no user.
C3_FirstAdminBootstrap ==
  \A req \in AdminRegisterReqs(NoToken) :
    LET r == register(Store, req)
    IN IF Admins = {}
         THEN UserExists(Store, req.email, req.username)
              \/ (r.status = 201 /\ r.data.isFirstAdmin /\ r.data.created \in DOMAIN r.st.users)
         ELSE r.status = 401 /\ SameStore(r)

\* C4: register with role = admin that is not the first-admin case creates a
\* user only if the token verifies and belongs to an existing admin user
\* with isActive = true.
C4_AdminRegisterNeedsActiveAdmin ==
  \A t \in TokensOf(Store) : \A req \in AdminRegisterReqs(t) :
    LET r == register(Store, req)
    IN (~r.data.isFirstAdmin /\ r.st.users # users) => Admitted(t, {"admin"})

\* C5: isFirstAdmin is true only when role = admin and no admin user exists;
\* in every other situation (a failed admin-count lookup included) it is
\* false and an admin registration without a token is rejected.
C5_IsFirstAdminExact ==
  \A req \in RegisterReqs(Store) :
    LET r == register(Store, req)
    IN /\ r.data.isFirstAdmin = (req.role = "admin" /\ Admins = {})
       /\ (req.role = "admin" /\ req.token = NoToken /\ Admins # {}) =>
            (r.status = 401 /\ SameStore(r))

\* The responses of every gated route to requests carrying token t, each
\* with the role set its router admits.
GatedResponses(t) ==
  {[roles |-> bothRoles, r |-> authUpdateProfile(Store, t, e)] : e \in Emails \cup {Absent}}
  \cup {[roles |-> adminOnly, r |-> adminListStudents(Store, t, x[1], x[2])] :
          x \in ListQueries \X BOOLEAN}
  \cup {[roles |-> adminOnly, r |-> adminCreateStudent(Store, t, req)] : req \in CreateStudentReqs}
  \cup {[roles |-> adminOnly, r |-> adminUpdateStudent(Store, t, x[1], x[2], Today)] :
          x \in StudentIds \X UpdateStudentReqs}
  \cup {[roles |-> adminOnly, r |-> adminDeleteStudent(Store, t, sid)] : sid \in StudentIds}
  \cup {[roles |-> adminOnly, r |-> adminSetStatus(Store, t, x[1], x[2], Today)] :
          x \in StudentIds \X UpdateStatuses}
  \cup {[roles |-> adminOnly, r |-> createUser(Store, t, req)] : req \in CreateReqs}
  \cup {[roles |-> adminOnly, r |-> updateUser(Store, t, x[1], x[2])] : x \in UserIds \X UpdateUserReqs}
  \cup {[roles |-> adminOnly, r |-> deleteUser(Store, t, id)] : id \in UserIds}
  \cup {[roles |-> studentOnly, r |-> studentGet(Store, t, route)] : route \in StudentGetRoutes}
  \cup {[roles |-> studentOnly, r |-> studentUpdateProfile(Store, t, PhoneBody(ph))] :
          ph \in {NoPhone, AltPhone, DefaultPhone}}

HandlerRan(r) == r.data # [none |-> FALSE]

\* C6: the handler of a gated route runs only for a token that verifies,
\* whose user exists and is active and has a role the route admits; any other
\* request ends with 401 (no or invalid token, unknown or deactivated user)
\* or 403 (role not admitted) and leaves the store as it was.
C6_GateGuardsHandlers ==
  \A t \in TokensOf(Store) : \A g \in GatedResponses(t) :
    IF Admitted(t, g.roles)
      THEN HandlerRan(g.r)
      ELSE /\ ~HandlerRan(g.r)
           /\ g.r.st = Store
           /\ g.r.status = IF Admitted(t, Roles) THEN 403 ELSE 401

\* A student's live token is turned away with 403 by an admin route that
\* names an existing student record.
C6_Witness ==
  \E t \in TokensOf(Store), sid \in DOMAIN students :
    /\ Admitted(t, {"student"})
    /\ adminDeleteStudent(Store, t, sid).status = 403

\* C7: a token issued to a user who has since been deleted or deactivated is
\* answered 401 by every gated route, with the store unchanged; a token whose
\* user exists and is active (again) is not answered 401.
C7_TokenDiesWithUser ==
  \A i \in issued : \A g \in GatedResponses(generateToken(i)) :
    IF i \notin DOMAIN users \/ ~users[i].isActive
      THEN g.r.status = 401 /\ g.r.st = Store
      ELSE g.r.status # 401

\* A token was issued to a user who has been deleted since, beside one issued
\* to a user who is deactivated.
C7_Witness ==
  /\ \E i \in issued : i \notin DOMAIN users
  /\ \E i \in issued : i \in DOMAIN users /\ ~users[i].isActive

\* C8: login with an existing email and a wrong password is answered with
\* the status and message of login with an email no user has.
C8_LoginIndistinguishable ==
  \A e \in Emails, p \in LoginPasswords :
    (\E u \in DOMAIN users : users[u].email = e /\ users[u].password # p) =>
      LET known == login(Store, e, p)
          unknown == login(Store, UnknownEmail, p)
      IN known.status = unknown.status /\ known.message = unknown.message

Duplicate(email, username) ==
  \E u \in DOMAIN users : users[u].email = email \/ users[u].username = username

\* C9: no two Users share an email or a username; a create request (register,
\* createUser, adminCreateStudent) whose email or username is already stored
\* persists no User and no StudentRecord, and is answered 400 (401 or 403
\* when the caller is not let through to the check).
C9_UniqueEmailUsername ==
  /\ \A u, v \in DOMAIN users :
       u # v => users[u].email # users[v].email /\ users[u].username # users[v].username
  /\ \A req \in RegisterReqs(Store) :
       Duplicate(req.email, req.username) =>
         LET r == register(Store, req)
         IN /\ SameStore(r)
            /\ \/ r.status = 400
               \/ /\ r.status \in {401, 403}
                  /\ req.role = "admin"
                  /\ ~(req.token.kind = "jwt" /\ req.token.id \in Admins)
  /\ \A t \in TokensOf(Store), req \in CreateReqs :
       Duplicate(req.email, req.username) =>
         LET r == createUser(Store, t, req)
         IN /\ SameStore(r)
            /\ IF Admitted(t, {"admin"}) THEN r.status = 400 ELSE r.status \in {401, 403}
  /\ \A t \in TokensOf(Store), req \in CreateStudentReqs :
       Duplicate(req.email, req.username) =>
         LET r == adminCreateStudent(Store, t, req)
         IN /\ SameStore(r)
            /\ IF Admitted(t, {"admin"}) THEN r.status = 400 ELSE r.status \in {401, 403}

\* One user is stored, and an admin's createUser with that user's username
\* and an email nobody has is answered 400 and stores nothing.
C9_Witness ==
  /\ Cardinality(DOMAIN users) = 1
  /\ \E t \in TokensOf(Store), req \in CreateReqs :
       /\ Admitted(t, {"admin"})
       /\ \E u \in DOMAIN users : users[u].username = req.username
       /\ \A u \in DOMAIN users : users[u].email # req.email
       /\ createUser(Store, t, req).status = 400
       /\ createUser(Store, t, req).st.users = users

\* Two users are stored and a public student registration with the email of
\* one of them is answered 400.
C9_WitnessTwoUsers ==
  /\ Cardinality(DOMAIN users) = 2
  /\ \E req \in RegisterReqs(Store) :
       /\ req.role = "student"
       /\ register(Store, req).status = 400

StudentResponses(t) ==
  {studentGet(Store, t, route) : route \in StudentGetRoutes}
  \cup {studentUpdateProfile(Store, t, PhoneBody(ph)) : ph \in {NoPhone, AltPhone, DefaultPhone}}

RecordsOf(u) == {s \in DOMAIN students : students[s].userId = u}

\* Only the caller's own record may differ after the request.
OthersUntouched(u, r) ==
  /\ r.st.users = users
  /\ DOMAIN r.st.students = DOMAIN students
  /\ \A s \in DOMAIN students \ RecordsOf(u) : r.st.students[s] = students[s]

\* C10 as stated: a /student request by caller u carries and changes only the
\* StudentRecord of u, carries no User at all, changes no User, and is
\* answered 404 when u has no StudentRecord.
C10_OwnRecordOnly_NoUserRead ==
  \A t \in TokensOf(Store) :
    Admitted(t, {"student"}) =>
      \A r \in StudentResponses(t) :
        /\ r.data.students \subseteq RecordsOf(t.id)
        /\ r.data.users = {}
        /\ OthersUntouched(t.id, r)
        /\ RecordsOf(t.id) = {} => r.status = 404

\* C10 amended: a /student request by caller u carries and changes only the
\* StudentRecord of u; the only User it carries is u itself (populated by
\* profile, personal-info and the profile update), it changes no User, and
\* when u has no StudentRecord it is answered 404, or 400 when the body of a
\* profile update fails validation.
C10_OwnRecordOnly ==
  \A t \in TokensOf(Store) :
    Admitted(t, {"student"}) =>
      /\ \A r \in StudentResponses(t) :
           /\ r.data.students \subseteq RecordsOf(t.id)
           /\ r.data.users \subseteq {t.id}
           /\ OthersUntouched(t.id, r)
      /\ RecordsOf(t.id) = {} =>
           /\ \A route \in StudentGetRoutes : studentGet(Store, t, route).status = 404
           /\ \A ph \in {NoPhone, AltPhone, DefaultPhone} :
                studentUpdateProfile(Store, t, PhoneBody(ph)).status =
                  IF ph = DefaultPhone THEN 400 ELSE 404

\* Two students hold live tokens: one has no record of its own and is
\* answered 404 while the other's record is stored; the other reads its own
\* record and changes its phone.
C10_Witness ==
  \E ta, tb \in TokensOf(Store) :
    /\ Admitted(ta, {"student"})
    /\ RecordsOf(ta.id) = {}
    /\ studentGet(Store, ta, "profile").status = 404
    /\ Admitted(tb, {"student"})
    /\ RecordsOf(tb.id) # {}
    /\ studentGet(Store, tb, "profile").data.students = RecordsOf(tb.id)
    /\ studentUpdateProfile(Store, tb, PhoneBody(AltPhone)).st.students # students

----------------------------------------------------------------------------
\* Properties of record edits (ProfileSpec)

\* The objects with some or all of the subfields of obj
Partials(obj) == {[k \in D |-> obj[k]] : D \in SUBSET DOMAIN obj \ {{}}}

OtherAddress ==
  [street |-> "7 JM Road", city |-> "Nashik", state |-> "GJ", zipCode |-> "422001",
   country |-> "Nepal"]
OtherEmergencyContact == [name |-> "Leela", relationship |-> "aunt", phone |-> AltPhone]
OtherAcademicInfo ==
  [collegeName |-> "COEP", department |-> "ECE", course |-> "MTech", year |-> 4, semester |-> 7,
   cgpa |-> 9]
OtherGuardianInfo ==
  [name |-> "Arun", relationship |-> "father", phone |-> AltPhone,
   email |-> [user |-> "arun", host |-> "mail", tld |-> <<"i", "n">>]]

\* A body that also carries fields a student may not set
ForeignBody ==
  [NoProfileUpdate EXCEPT !.status = "graduated", !.studentId = <<"S", 2>>,
                          !.graduationDate = Today, !.academicInfo = <<OtherAcademicInfo>>,
                          !.guardianInfo = <<OtherGuardianInfo>>]

\* Bodies of PUT /api/student/profile whose values pass every validator
ProfileBodies ==
  {[base EXCEPT !.phone = ph, !.address = <<a>>] :
     base \in {NoProfileUpdate, ForeignBody}, ph \in {NoPhone, AltPhone},
     a \in Partials(OtherAddress)}
  \cup {[base EXCEPT !.phone = ph, !.emergencyContact = <<e>>] :
     base \in {NoProfileUpdate, ForeignBody}, ph \in {NoPhone, AltPhone},
     e \in Partials(OtherEmergencyContact)}
  \cup {[base EXCEPT !.address = <<[city |-> "Nashik"]>>, !.emergencyContact = <<e>>] :
     base \in {NoProfileUpdate, ForeignBody}, e \in Partials(OtherEmergencyContact)}
  \cup {ForeignBody, NoProfileUpdate}

\* b is a with exactly the subfields of the given part overridden
Merged(a, part, b) ==
  /\ DOMAIN b = DOMAIN a \cup DOMAIN part
  /\ \A k \in DOMAIN part : b[k] = part[k]
  /\ \A k \in DOMAIN a \ DOMAIN part : b[k] = a[k]

\* C11: updateOwnProfile changes at most phone, address and emergencyContact
\* of the caller's record: whatever the body carries, every other field of
\* every StudentRecord and every User is left as it was.
C11_OwnProfileFrame ==
  \A t \in TokensOf(Store), body \in ProfileBodies :
    LET r == studentUpdateProfile(Store, t, body)
    IN /\ r.st.users = users
       /\ DOMAIN r.st.students = DOMAIN students
       /\ \A s \in DOMAIN students :
            [r.st.students[s] EXCEPT !.phone = students[s].phone,
                                     !.address = students[s].address,
                                     !.emergencyContact = students[s].emergencyContact]
              = students[s]

\* A student has already sent a body with status = graduated beside a new
\* emergency phone (the phone is stored, the record is still active and has
\* no graduation date), and sends another with status, studentId and
\* academicInfo beside a new phone: it is answered 200 and the record changes.
C11_Witness ==
  \E t \in TokensOf(Store) :
    LET r == studentUpdateProfile(Store, t, [ForeignBody EXCEPT !.phone = AltPhone])
    IN /\ Admitted(t, {"student"})
       /\ r.status = 200
       /\ r.st.students # students
       /\ \E s \in DOMAIN students :
            /\ students[s].userId = t.id
            /\ students[s].emergencyContact.phone = AltPhone
            /\ students[s].status = "active"
            /\ students[s].graduationDate = NoDate

\* C12: updateOwnProfile with a partial address or emergencyContact overrides
\* exactly the supplied subfields and keeps every other subfield of the
\* stored object (a body of valid values is answered 200).
C12_OwnProfileMerge ==
  \A t \in TokensOf(Store), body \in ProfileBodies :
    (Admitted(t, {"student"}) /\ RecordsOf(t.id) # {}) =>
      LET r == studentUpdateProfile(Store, t, body)
      IN /\ r.status = 200
         /\ \A s \in RecordsOf(t.id) :
              /\ body.address # <<>> =>
                   Merged(students[s].address, body.address[1], r.st.students[s].address)
              /\ body.address = <<>> => r.st.students[s].address = students[s].address
              /\ body.emergencyContact # <<>> =>
                   Merged(students[s].emergencyContact, body.emergencyContact[1],
                          r.st.students[s].emergencyContact)
              /\ body.emergencyContact = <<>> =>
                   r.st.students[s].emergencyContact = students[s].emergencyContact

\* The stored address was already edited once (its street is no longer the
\* one given at creation), and a body with only a city is answered 200 with
\* the city replaced and the edited street kept.
C12_Witness ==
  \E t \in TokensOf(Store), s \in DOMAIN students :
    LET r == studentUpdateProfile(Store, t, [NoProfileUpdate EXCEPT !.address = <<[city |-> "Nashik"]>>])
    IN /\ Admitted(t, {"student"})
       /\ students[s].userId = t.id
       /\ students[s].address.street # GivenAddress.street
       /\ students[s].address.city # "Nashik"
       /\ r.status = 200
       /\ r.st.students[s].address.city = "Nashik"
       /\ r.st.students[s].address.street = students[s].address.street

\* Bodies of PUT /api/admin/students/:id with part of one nested object, or
\* of all three
StudentBodies ==
  {[NoStudentUpdate EXCEPT !.academicInfo = <<a>>] : a \in Partials(OtherAcademicInfo)}
  \cup {[NoStudentUpdate EXCEPT !.guardianInfo = <<g>>] : g \in Partials(OtherGuardianInfo)}
  \cup {[NoStudentUpdate EXCEPT !.emergencyContact = <<e>>] : e \in Partials(OtherEmergencyContact)}
  \cup {[NoStudentUpdate EXCEPT !.academicInfo = <<[cgpa |-> 9]>>, !.guardianInfo = <<g>>,
                                !.emergencyContact = <<[name |-> "Leela"]>>] :
          g \in Partials(OtherGuardianInfo)}

NestedOfAdminUpdate == {"academicInfo", "guardianInfo", "emergencyContact"}

\* C13: adminUpdateStudent with a partial academicInfo, guardianInfo or
\* emergencyContact overrides exactly the supplied subfields and keeps every
\* other subfield of the stored object (a body of valid values is answered 200).
C13_AdminUpdateMerge ==
  \A t \in TokensOf(Store), sid \in DOMAIN students, req \in StudentBodies, now \in Dates :
    Admitted(t, {"admin"}) =>
      LET r == adminUpdateStudent(Store, t, sid, req, now)
      IN /\ r.status = 200
         /\ \A f \in NestedOfAdminUpdate :
              IF req[f] # <<>>
                THEN Merged(students[sid][f], req[f][1], r.st.students[sid][f])
                ELSE r.st.students[sid][f] = students[sid][f]

\* The stored guardianInfo was already edited once (its phone is not the one
\* given at creation), and a body with only the guardian's name is answered
\* 200 with the name replaced and the edited phone kept.
C13_Witness ==
  \E t \in TokensOf(Store), sid \in DOMAIN students :
    LET r == adminUpdateStudent(Store, t, sid,
                                [NoStudentUpdate EXCEPT !.guardianInfo = <<[name |-> "Arun"]>>], Today)
    IN /\ Admitted(t, {"admin"})
       /\ students[sid].guardianInfo.phone # GivenGuardianInfo.phone
       /\ r.status = 200
       /\ r.st.students[sid].guardianInfo.name = "Arun"
       /\ r.st.students[sid].guardianInfo.phone = students[sid].guardianInfo.phone
       /\ r.st.students[sid].guardianInfo.email = students[sid].guardianInfo.email

----------------------------------------------------------------------------
\* Properties of status and graduation date

\* The responses of every route to every request, and of the two routes
\* that read the clock at every reading of it
AllResponses ==
  {register(Store, req) : req \in RegisterReqs(Store)}
  \cup {login(Store, x[1], x[2]) : x \in (Emails \cup {UnknownEmail}) \X LoginPasswords}
  \cup UNION {{g.r : g \in GatedResponses(t)} : t \in TokensOf(Store)}
  \cup {adminUpdateStudent(Store, x[1], x[2], x[3], x[4]) :
          x \in TokensOf(Store) \X (DOMAIN students) \X UpdateStudentReqs \X Dates}
  \cup {adminSetStatus(Store, x[1], x[2], x[3], x[4]) :
          x \in TokensOf(Store) \X (DOMAIN students) \X UpdateStatuses \X Dates}

\* C14: a StudentRecord with status = graduated has a graduationDate, and a
\* request writes graduationDate only when it moves the record from another
\* status to graduated (a record is created without one).
C14_GraduationDate ==
  /\ \A s \in DOMAIN students :
       students[s].status = "graduated" => students[s].graduationDate # NoDate
  /\ \A r \in AllResponses : \A s \in DOMAIN r.st.students :
       IF s \in DOMAIN students
         THEN r.st.students[s].graduationDate # students[s].graduationDate =>
                /\ students[s].status # "graduated"
                /\ r.st.students[s].status = "graduated"
         ELSE r.st.students[s].graduationDate = NoDate

\* A record is graduated and carries the date of its graduation; an admin's
\* request at a later date to move it to inactive changes the status and
\* leaves the date as it is.
C14_Witness ==
  \E t \in TokensOf(Store), s \in DOMAIN students :
    /\ Admitted(t, {"admin"})
    /\ students[s].status = "graduated"
    /\ students[s].graduationDate = Today
    /\ adminSetStatus(Store, t, s, "inactive", "2025-06-01").st.students[s].graduationDate = Today
    /\ adminSetStatus(Store, t, s, "inactive", "2025-06-01").st.students[s].status = "inactive"

GraduateBody == [NoStudentUpdate EXCEPT !.status = "graduated"]

\* The two ways an admin sets status = graduated, as functions of the store
Graduations(t, sid, now) ==
  {adminSetStatus(Store, t, sid, "graduated", now),
   adminUpdateStudent(Store, t, sid, GraduateBody, now)}

GraduationsAfter(r, t, sid, now) ==
  {adminSetStatus(r.st, t, sid, "graduated", now),
   adminUpdateStudent(r.st, t, sid, GraduateBody, now)}

\* C15: setting status = graduated on a record that is graduated already
\* leaves graduationDate as it is, and setting it twice in a row gives the
\* graduationDate that setting it once gives.
C15_GraduateIdempotent ==
  \A t \in TokensOf(Store), sid \in DOMAIN students, now \in Dates, later \in Dates :
    Admitted(t, {"admin"}) =>
      \A r \in Graduations(t, sid, now) :
        /\ r.status = 200
        /\ r.st.students[sid].status = "graduated"
        /\ students[sid].status = "graduated" =>
             r.st.students[sid].graduationDate = students[sid].graduationDate
        /\ \A rr \in GraduationsAfter(r, t, sid, later) :
             /\ rr.status = 200
             /\ rr.st.students[sid].graduationDate = r.st.students[sid].graduationDate

\* A record graduated at one date is set to graduated again at another date:
\* the request is answered 200 and the stored date stays.
C15_Witness ==
  \E t \in TokensOf(Store), sid \in DOMAIN students, now \in Dates :
    /\ Admitted(t, {"admin"})
    /\ students[sid].status = "graduated"
    /\ students[sid].graduationDate \in Dates \ {now}
    /\ adminSetStatus(Store, t, sid, "graduated", now).status = 200
    /\ adminSetStatus(Store, t, sid, "graduated", now).st.students[sid].graduationDate
         = students[sid].graduationDate

----------------------------------------------------------------------------
\* Properties of creation and deletion

HasRecord(S, u) == \E s \in DOMAIN S.students : S.students[s].userId = u

\* C16: adminCreateStudent is one unit: after any outcome, the User it
\* created and that User's StudentRecord both exist or neither does.
C16_CreateStudentAtomic ==
  \A t \in TokensOf(Store), req \in CreateStudentReqs :
    LET r == adminCreateStudent(Store, t, req)
    IN /\ \A u \in DOMAIN r.st.users \ DOMAIN users : HasRecord(r.st, u)
       /\ \A s \in DOMAIN r.st.students \ DOMAIN students :
            r.st.students[s].userId \in DOMAIN r.st.users \ DOMAIN users

\* studentData that names no studentId, or one no stored record has
FreshStudentData(sd) ==
  \A s \in DOMAIN students : students[s].studentId # sd.studentId

\* C17: register with role = student and an unused email and username is
\* answered 201 with a session token and stores a StudentRecord for the new
\* user, whether studentData is left out, partial or complete.
C17_RegisterStudentHasRecord ==
  \A req \in RegisterReqs(Store) :
    (req.role = "student" /\ ~Duplicate(req.email, req.username)
       /\ FreshStudentData(req.studentData)) =>
      LET r == register(Store, req)
      IN /\ r.status = 201
         /\ r.data.created \in DOMAIN r.st.users
         /\ r.data.created \in r.st.issued
         /\ HasRecord(r.st, r.data.created)

\* C18: every StudentRecord's userId refers to a stored User.
C18_NoOrphanRecord ==
  \A s \in DOMAIN students : students[s].userId \in DOMAIN users

\* C19: adminDeleteStudent by an admin on a stored record removes the record
\* and leaves the Users collection as it was.
C19_DeleteStudentKeepsUser ==
  \A t \in TokensOf(Store), sid \in DOMAIN students :
    Admitted(t, {"admin"}) =>
      LET r == adminDeleteStudent(Store, t, sid)
      IN /\ r.status = 200
         /\ sid \notin DOMAIN r.st.students
         /\ r.st.users = users

----------------------------------------------------------------------------
\* Properties of the student list (ListSpec)

\* Queries with page and limit left out, in range and out of range, and a
\* status filter left out, admitted or not admitted
PageQueries ==
  [page : {<<>>, <<0>>, <<1>>, <<2>>, <<3>>, <<7>>},
   limit : {<<>>, <<0>>, <<1>>, <<2>>, <<5>>, <<10>>, <<100>>, <<101>>},
   status : {<<>>, <<"active">>, <<"inactive">>, <<"transferred">>},
   search : {<<>>}]

Matching(q) == {s \in DOMAIN students : q.status # <<>> => students[s].status = q.status[1]}

AskedPage(q) == IF q.page = <<>> THEN 1 ELSE q.page[1]
AskedLimit(q) == IF q.limit = <<>> THEN 10 ELSE q.limit[1]

Least(a, b) == IF a < b THEN a ELSE b
Greatest(a, b) == IF a > b THEN a ELSE b

\* The number of matching records created after s
NewerThan(q, s) == Cardinality({x \in Matching(q) : x > s})

\* C20: adminListStudents over N matching students returns
\* min(limit, max(0, N - (page-1)*limit)) records, newest first and starting
\* after the (page-1)*limit newest, with totalStudents = N, totalPages =
\* ceil(N/limit), hasNextPage = (page < totalPages), hasPrevPage = (page > 1);
\* page defaults to 1 and limit to 10, and a page below 1, a limit outside
\* 1..100 or a status that is not admitted is answered 400.
C20_Pagination ==
  \A t \in TokensOf(Store), q \in PageQueries, emptied \in BOOLEAN :
    Admitted(t, {"admin"}) =>
      LET r == adminListStudents(Store, t, q, emptied)
          N == Cardinality(Matching(q))
          page == AskedPage(q)
          limit == AskedLimit(q)
          pages == IF N % limit = 0 THEN N \div limit ELSE N \div limit + 1
          got == r.data.students
      IN IF page < 1 \/ limit < 1 \/ limit > 100
            \/ (q.status # <<>> /\ q.status[1] \notin AdminStatuses)
           THEN r.status = 400
           ELSE /\ r.status = 200
                /\ r.st = Store
                /\ Len(got) = Least(limit, Greatest(0, N - (page - 1) * limit))
                /\ \A i \in 1..Len(got) :
                     /\ got[i] \in Matching(q)
                     /\ NewerThan(q, got[i]) = (page - 1) * limit + i - 1
                /\ r.data.pagination.currentPage = page
                /\ r.data.pagination.totalStudents = N
                /\ r.data.pagination.totalPages = pages
                /\ r.data.pagination.hasNextPage = (page < pages)
                /\ r.data.pagination.hasPrevPage = (page > 1)

\* More than ten students are stored, three of them inactive: the list with
\* no page and no limit has the ten newest and a next page, page 2 has the
\* rest, and page 2 of the inactive ones at limit 2 has the third of them.
C20_Witness ==
  \E t \in TokensOf(Store) :
    LET first == adminListStudents(Store, t, [page |-> <<>>, limit |-> <<>>, status |-> <<>>,
                                              search |-> <<>>], FALSE)
        second == adminListStudents(Store, t, [page |-> <<2>>, limit |-> <<>>, status |-> <<>>,
                                               search |-> <<>>], FALSE)
        inactive == adminListStudents(Store, t, [page |-> <<2>>, limit |-> <<2>>,
                                                 status |-> <<"inactive">>,
                                                 search |-> <<>>], FALSE)
    IN /\ Admitted(t, {"admin"})
       /\ Cardinality(DOMAIN students) > 10
       /\ Len(first.data.students) = 10
       /\ first.data.pagination.hasNextPage
       /\ Len(second.data.students) = Cardinality(DOMAIN students) - 10
       /\ ~second.data.pagination.hasNextPage
       /\ second.data.pagination.hasPrevPage
       /\ Len(inactive.data.students) = 1
       /\ inactive.data.pagination.totalStudents = 3

----------------------------------------------------------------------------
\* Search of the student list

\* The characters of the e-mail addresses users are stored with
EmailText(email) ==
  IF email = "a@vdcet.in"
    THEN <<"a", "@", "v", "d", "c", "e", "t", ".", "i", "n">>
    ELSE <<"b", "@", "v", "d", "c", "e", "t", ".", "i", "n">>

\* Search terms: part of a typed student id in either case, part of one
\* e-mail address, part of both, and a term nothing contains
SearchTerms ==
  {<<"s", "1">>, <<"S">>, <<"a", "@">>, <<"V", "D", "C">>, <<"z", "z">>}

SearchQuery(term) == [page |-> <<>>, limit |-> <<>>, status |-> <<>>, search |-> <<term>>]

\* The students the search is to find, as far as studentId and e-mail go
Found(term) ==
  {s \in DOMAIN students :
     \/ regexMatch(studentIdText(students[s].studentId), term)
     \/ /\ students[s].userId \in DOMAIN users
        /\ regexMatch(EmailText(users[students[s].userId].email), term)}

Listed(r) == {r.data.students[i] : i \in 1..Len(r.data.students)}

\* C21: the student list searched with a term holds every student whose
\* studentId or whose owning User's email contains the term, ignoring case.
C21_SearchFindsMatches ==
  \A t \in TokensOf(Store), term \in SearchTerms, emptied \in BOOLEAN :
    Admitted(t, {"admin"}) =>
      Found(term) \subseteq Listed(adminListStudents(Store, t, SearchQuery(term), emptied))

----------------------------------------------------------------------------
\* Properties of the fee-structure document (FeeSpec)

\* C22: Total Fees is the stored totalFees (40000 when missing or zero) plus,
\* for a hostelite, the stored hostelFees (15000 when missing or zero), and
\* Balance Amount is that total minus scholarshipAmount minus paidFees.
C22_FeeTotals ==
  \A t \in TokensOf(Store), sid \in DOMAIN students :
    Admitted(t, {"admin"}) =>
      LET r == adminFeeStructure(Store, t, sid)
          fin == students[sid].financialInfo
          hos == students[sid].hostelInfo
          given(v, fallback) == IF v = <<>> THEN fallback ELSE IF v[1] = 0 THEN fallback ELSE v[1]
          total == given(fin.totalFees, 40000)
                     + (IF hos.isHostelite THEN given(hos.hostelFees, 15000) ELSE 0)
      IN /\ r.status = 200
         /\ r.data.totalFees = total
         /\ r.data.balanceAmount
              = total - given(fin.scholarshipAmount, 0) - given(fin.paidFees, 0)

----------------------------------------------------------------------------
\* Properties of the contact intake (ContactSpec)

\* C23: a body with an empty field is answered 400 and nothing is stored or
\* mailed; a complete body whose relay fails is answered 500 with the message
\* stored and nothing mailed, and sending it again stores it a second time;
\* a complete body whose relay succeeds is answered 200, stored and mailed.
C23_SavedBeforeRelay ==
  \A body \in ContactBodies, relayFails \in BOOLEAN :
    LET r == sendMessage(ContactStore, body, relayFails)
        again == sendMessage([contacts |-> r.contacts, outbox |-> r.outbox], body, TRUE)
    IN IF \E f \in DOMAIN body : body[f] = ""
         THEN r.status = 400 /\ r.contacts = contacts /\ r.outbox = outbox
       ELSE IF relayFails
         THEN /\ r.status = 500
              /\ r.contacts = Append(contacts, newContact(body))
              /\ r.outbox = outbox
              /\ again.status = 500
              /\ again.contacts = contacts \o <<newContact(body), newContact(body)>>
       ELSE /\ r.status = 200
            /\ r.contacts = Append(contacts, newContact(body))
            /\ r.outbox = Append(outbox, mailOptions(body))

\* A message was sent twice and the relay failed both times: it is stored
\* twice and nothing was mailed.
C23_Witness ==
  /\ Len(contacts) = 2
  /\ contacts[1] = contacts[2]
  /\ outbox = <<>>

----------------------------------------------------------------------------
\* Properties of create-then-read (CreateSpec)

\* The payloads adminCreateStudent accepts in the store as it is
Accepted(t, req) ==
  /\ Admitted(t, {"admin"})
  /\ adminCreateStudent(Store, t, req).status = 201

\* The academicInfo adminGetStudent returns for the record a create made
ReadBack(t, req) ==
  LET made == adminCreateStudent(Store, t, req)
  IN adminGetStudent(made.st, t, nextId + 1).data.student.academicInfo

----------------------------------------------------------------------------
\* Properties of requests in flight (DeleteSpec)

\* C25: whatever way deleteUser requests interleave, an admin remains.
C25_AdminSurvivesDeletes == AdminCount(Store) >= 1

----------------------------------------------------------------------------
\* Properties of the whole application, continued (Spec)

StatusQuery(st) == [page |-> <<>>, limit |-> <<>>, status |-> <<st>>, search |-> <<>>]

\* C26: an admin can set each of the six statuses of the schema through
\* adminSetStatus and through adminUpdateStudent, and filter the list by it;
\* none of the six is refused by validation.
C26_SchemaStatusesAccepted ==
  \A t \in TokensOf(Store), sid \in DOMAIN students, st \in SchemaStatuses :
    Gate(adminOnly, Store, t).ok =>
      /\ adminSetStatus(Store, t, sid, st, Today).status # 400
      /\ adminUpdateStudent(Store, t, sid, [NoStudentUpdate EXCEPT !.status = st], Today).status # 400
      /\ adminListStudents(Store, t, StatusQuery(st), FALSE).status # 400

\* C27: register with role = student stores the User and its StudentRecord
\* together or not at all, and a registration that failed can be sent again
\* without being refused as a duplicate.
C27_RegisterStudentAtomic ==
  \A req \in RegisterReqs(Store) :
    req.role = "student" =>
      LET r == register(Store, req)
      IN /\ \A u \in DOMAIN r.st.users \ DOMAIN users : HasRecord(r.st, u)
         /\ \A s \in DOMAIN r.st.students \ DOMAIN students :
              r.st.students[s].userId \in DOMAIN r.st.users \ DOMAIN users
         /\ (r.status = 500 /\ ~Duplicate(req.email, req.username)) =>
              register(r.st, req).status # 400

\* Updates that change the owner's email together with a guardian email
EmailAndGuardianEdits ==
  {[NoStudentUpdate EXCEPT !.email = x[1], !.guardianInfo = <<[email |-> x[2]]>>] :
     x \in Emails \X {GivenGuardianEmail, LongTldGuardianEmail}}

\* C28: an adminUpdateStudent request answered 400, 404 or 500 has changed
\* neither a User nor a StudentRecord.
C28_UpdateStudentAtomic ==
  \A t \in TokensOf(Store), sid \in StudentIds,
     req \in UpdateStudentReqs \cup EmailAndGuardianEdits :
    LET r == adminUpdateStudent(Store, t, sid, req, Today)
    IN r.status \in {400, 404, 500} =>
         /\ r.st.users = users
         /\ r.st.students = students

----------------------------------------------------------------------------
\* Properties of concurrent first-admin registrations (RaceSpec)

\* C29: of the admin registrations in flight from a store with no admin, at
\* most one is taken for the first admin's and at most one admin is created;
\* every other one is answered 401.
C29_OneFirstAdmin ==
  /\ Cardinality({slot \in DOMAIN pending : pending[slot].isFirstAdmin}) <= 1
  /\ AdminCount(Store) <= 1
  /\ \A a, b \in DOMAIN pending :
       (a # b /\ pending[a].pc = "done" /\ pending[b].pc = "done") =>
         pending[a].status = 401 \/ pending[b].status = 401

----------------------------------------------------------------------------
\* Properties of the whole application: privileges (Spec)

\* A token that is none, or not an admin's
Unprivileged(t) ==
  t.kind # "jwt" \/ t.id \notin DOMAIN users \/ users[t.id].role = "student"

\* What a response has left alone for the caller with token t: roles and
\* isActive flags, the stored Users and StudentRecords, the documents of
\* every other user; and it has created no admin.
NoEscalation(t, r) ==
  /\ DOMAIN users \subseteq DOMAIN r.st.users
  /\ DOMAIN students \subseteq DOMAIN r.st.students
  /\ \A u \in DOMAIN users :
       /\ r.st.users[u].role = users[u].role
       /\ r.st.users[u].isActive = users[u].isActive
       /\ (t.kind # "jwt" \/ t.id # u) => r.st.users[u] = users[u]
  /\ \A u \in DOMAIN r.st.users \ DOMAIN users : r.st.users[u].role # "admin"
  /\ \A s \in DOMAIN students :
       (t.kind # "jwt" \/ t.id # students[s].userId) => r.st.students[s] = students[s]

\* The responses to every request that carries token t
ResponsesTo(t) ==
  {register(Store, req) : req \in {q \in RegisterReqs(Store) : q.token = t}}
  \cup {login(Store, x[1], x[2]) : x \in (Emails \cup {UnknownEmail}) \X LoginPasswords}
  \cup {g.r : g \in GatedResponses(t)}

\* C30: once an admin exists, a request with no token or with the token of
\* a student changes no role or isActive flag, creates no admin, deletes no
\* User or StudentRecord and changes no other user's documents.
C30_NoPrivilegeEscalation ==
  Admins # {} =>
    \A t \in TokensOf(Store) :
      Unprivileged(t) => \A r \in ResponsesTo(t) : NoEscalation(t, r)

====
